---------------------------- MODULE Spec2Model ----------------------------
(***************************************************************************)
(* pico-ident: identification unit firmware for the Raspberry Pi Pico.     *)
(*                                                                         *)
(* The model covers the AT24CM02 EEPROM driver (AT24CM02.cpp), the device  *)
(* info block (DeviceInfo.h) and the firmware proper (main.cpp): start-up, *)
(* the serial command handler, the wear-leveled pulse counter and the main *)
(* polling loop.  Memory is modelled byte for byte; texts are sequences of *)
(* character codes.                                                        *)
(***************************************************************************)
EXTENDS Integers, Sequences, FiniteSets, TLC

VARIABLES
  pc,                   \* position of main(): "boot", "poll", "flush", "reset", "panic"
  wrlock,               \* level of PIN_WRLOCK_IN (TRUE: the jumper denies writing)
  eeprom,               \* content of the EEPROM chip: page -> its 256 bytes, erased pages left out
  data,                 \* static DeviceInfoBlock data, as its 641 bytes
  pulsecount,           \* static volatile uint32 pulsecount
  last_pulsecount,      \* static uint32 last_pulsecount
  next_pulsecount_idx,  \* static uint32 next_pulsecount_idx
  ev,                   \* what the latest cycle of main() was: "none", "boot", "idle", "flush", "line"
  line,                 \* the line that cycle handed to HandleSerialMessage (<< >> if none)
  out,                  \* what that cycle printed on stdout
  bus,                  \* the I2C transfers that cycle issued, in order
  call,                 \* driver / counter harness: the latest direct call and its result
  peer_key,             \* the identity key the serial peer works on in this session
  npulses               \* counted pulses so far (bounds the exploration)

vars == <<pc, wrlock, eeprom, data, pulsecount, last_pulsecount,
          next_pulsecount_idx, ev, line, out, bus, call, peer_key,
          npulses>>

---------------------------------------------------------------------------
(* Arithmetic helpers. *)

Min(a, b) == IF a < b THEN a ELSE b

\* Op applied to the value of v.  TLC evaluates v once here; an operator
\* argument or a LET definition it evaluates again at every use.
Bind(v, Op(_)) == CHOOSE y \in { Op(w) : w \in { v } } : TRUE

\* uint32_t and size_t values (both 32 bits wide on the RP2040) are pairs
\* << high half, low half >> of 16-bit halves; their arithmetic wraps at 2^32.
Half == 65536

N32(n) == << n \div Half, n % Half >>

Add32(a, b) ==
  << (a[1] + b[1] + ((a[2] + b[2]) \div Half)) % Half, (a[2] + b[2]) % Half >>

Leq32(a, b) == a[1] < b[1] \/ (a[1] = b[1] /\ a[2] <= b[2])

Less32(a, b) == a # b /\ Leq32(a, b)

\* The value of a 32-bit pair that is known to be small.
Nat32(a) == a[1] * Half + a[2]

\* The factory / erased state of an EEPROM byte.
Erased == 255

---------------------------------------------------------------------------
(* AT24CM02.h / AT24CM02.cpp: the EEPROM driver and the chip behind it. *)

kPages == 1024
kBytesPerPage == 256
kAddrMask == 262143

\* Bytes before a 64 KiB device-address bank boundary (the two top address
\* bits travel in the I2C device address).
BankSize == 65536

\* addr_pin_ as set by main.cpp's  AT24CM02 eeprom{I2C_INST, true}.
addr_pin_ == 1

\* A page of the chip's memory; the memory is kept by page, erased pages
\* left out.
ErasedPage == [ i \in 1..kBytesPerPage |-> Erased ]
PageOf(mem, p) == IF p \in DOMAIN mem THEN mem[p] ELSE ErasedPage
WithPage(mem, p, page) ==
  [ q \in { r \in (DOMAIN mem) \cup {p} : r # p \/ page # ErasedPage } |->
      IF q = p THEN page ELSE mem[q] ]

\* A byte of the chip's memory.
MemAt(mem, a) ==
  IF (a \div kBytesPerPage) \in DOMAIN mem
  THEN mem[a \div kBytesPerPage][(a % kBytesPerPage) + 1]
  ELSE Erased

\* A driver that takes the bits above a 64 KiB bank one place too high.
I2cAddrShift16(addr) == ((160 + addr_pin_ * 8 + (addr \div 65536)) % 256) \div 2

\* i2c_addr of Write and Read: (0xA0 | (addr_pin_ << 3) | (addr >> 15)) >> 1,
\* kept in a uint8_t.  For an 18-bit addr the three terms share no bit.
I2cAddr(addr) == ((160 + addr_pin_ * 8 + (addr \div 32768)) % 256) \div 2

\* addr_bytes[0] = (addr & 0x0FF00) >> 8;  addr_bytes[1] = addr & 0x000FF.
AddrBytes(addr) == << (addr \div 256) % 256, addr % 256 >>

\* The chip answers to 1010 A2 x x with A2 strapped high on the board.
DeviceSelected(i2c_addr) == i2c_addr \div 4 = 21

\* The 18-bit memory address a transfer selects: two bank bits of the
\* device address, then the two word-address bytes.
DeviceAddr(i2c_addr, addr_bytes) ==
  (i2c_addr % 4) * BankSize + addr_bytes[1] * 256 + addr_bytes[2]

\* Page write of the chip: the low 8 address bits count up and roll over
\* inside the page; of the bytes sent to one cell the last one stays.
DevicePageWrite(mem, x) ==
  Bind(DeviceAddr(x.i2c_addr, x.addr_bytes), LAMBDA start :
  Bind(PageOf(mem, start \div kBytesPerPage), LAMBDA old :
    LET off == start % kBytesPerPage
        n   == Len(x.data)
        \* the first and the last byte of x.data sent to cell c of the page
        first(c) == ((c - off) % kBytesPerPage) + 1
        lastI(c) == first(c) + kBytesPerPage * ((n - first(c)) \div kBytesPerPage)
    IN  Bind(IF off + n <= kBytesPerPage
             THEN \* no roll-over: the bytes land one after the other
                  SubSeq(old, 1, off) \o x.data \o SubSeq(old, off + n + 1, kBytesPerPage)
             ELSE [ i \in 1..kBytesPerPage |->
                      IF first(i - 1) <= n THEN x.data[lastI(i - 1)] ELSE old[i] ],
             LAMBDA page : WithPage(mem, start \div kBytesPerPage, page))))

\* Sequential read of the chip: the address counts up through the array.
DeviceRead(mem, i2c_addr, addr_bytes, len) ==
  LET start == DeviceAddr(i2c_addr, addr_bytes)
  IN  [ i \in 1..len |-> MemAt(mem, (start + i - 1) % (kPages * kBytesPerPage)) ]

\* The argument checks shared by Write and Read (lines 12-18 / 58-64) for
\* 32-bit addr and len: len == 0, addr & ~kAddrMask, and addr + len, a
\* 32-bit sum, against kPages * kBytesPerPage.
Accepted32(addr, len) ==
  /\ len # N32(0)
  /\ addr[1] \div ((kAddrMask + 1) \div Half) = 0
  /\ ~ Leq32(N32(kPages * kBytesPerPage), Add32(addr, len))

Accepted(addr, len) == Accepted32(N32(addr), N32(len))

\* A driver that takes every first chunk for a whole page.
FirstPageRemainWholePage(addr, len) == Min(len, kBytesPerPage)

\* page_remain before the loop of Write (lines 20-24).
FirstPageRemain(addr, len) ==
  LET page_remain == kBytesPerPage - (addr % kBytesPerPage)
  IN  IF len < page_remain THEN len ELSE page_remain

\* page_remain for the next round of the loop (line 51).
NextPageRemain(len) == Min(len, kBytesPerPage)

\* One sub-transfer of Write: the address bytes, then page_remain bytes from
\* buf + off on.
SubTransfer(addr, buf, off, page_remain) ==
  [ kind |-> "write", i2c_addr |-> I2cAddr(addr), addr_bytes |-> AddrBytes(addr),
    data |-> SubSeq(buf, off + 1, off + page_remain) ]

\* The loop of Write (lines 26-52) with no transport error: the sub-transfers
\* it issues, in order.  off is how far the pointer buf has moved.
RECURSIVE WriteLoop(_, _, _, _, _)
WriteLoop(addr, buf, off, len, page_remain) ==
  IF ~ (len > 0) THEN << >>
  ELSE << SubTransfer(addr, buf, off, page_remain) >> \o
       WriteLoop(addr + page_remain,
                 buf,
                 off + page_remain,
                 len - page_remain,
                 NextPageRemain(len - page_remain))

\* The chip's memory after the sub-transfers k, k + 1, ... n of xs.
RECURSIVE ApplyTransfers(_, _, _, _)
ApplyTransfers(mem, xs, k, n) ==
  IF k > n THEN mem
  ELSE Bind(DevicePageWrite(mem, xs[k]), LAMBDA m : ApplyTransfers(m, xs, k + 1, n))

\* A driver that notes a transport error and goes on with the next chunk.
WriteNoAbort(mem, addr, buf, fail) ==
  IF ~ Accepted(addr, Len(buf))
  THEN [ ok |-> FALSE, mem |-> mem, bus |-> << >> ]
  ELSE Bind(WriteLoop(addr, buf, 0, Len(buf), FirstPageRemain(addr, Len(buf))),
            LAMBDA all :
              LET bad == IF fail \in 1..Len(all) THEN {fail} ELSE {}
              IN  [ ok  |-> bad = {},
                    mem |-> IF bad = {} THEN ApplyTransfers(mem, all, 1, Len(all))
                            ELSE ApplyTransfers(ApplyTransfers(mem, all, 1, fail - 1),
                                                all, fail + 1, Len(all)),
                    bus |-> all ])

\* AT24CM02::Write(addr, buf, len), len being the length of buf.  fail is the
\* number of the sub-transfer at which the bus reports PICO_ERROR_GENERIC
\* (0: none does); a transfer the chip does not answer fails as well.
\* Gives the return value, the memory afterwards and the transfers issued.
Write(mem, addr, buf, fail) ==
  IF ~ Accepted(addr, Len(buf))
  THEN [ ok |-> FALSE, mem |-> mem, bus |-> << >> ]
  ELSE Bind(WriteLoop(addr, buf, 0, Len(buf), FirstPageRemain(addr, Len(buf))),
            LAMBDA all :
              LET nack == { j \in 1..Len(all) : ~ DeviceSelected(all[j].i2c_addr) }
                  bad  == nack \cup (IF fail \in 1..Len(all) THEN {fail} ELSE {})
                  stop == IF bad = {} THEN 0
                          ELSE CHOOSE j \in bad : \A k \in bad : j <= k
              IN  [ ok  |-> stop = 0,
                    mem |-> ApplyTransfers(mem, all, 1,
                                           IF stop = 0 THEN Len(all) ELSE stop - 1),
                    bus |-> IF stop = 0 THEN all ELSE SubSeq(all, 1, stop) ])

\* AT24CM02::Read(addr, buf, len).  fail = 1: the bus reports an error.
\* Gives the return value, the bytes read and the transfer issued.
Read(mem, addr, len, fail) ==
  IF ~ Accepted(addr, len)
  THEN [ ok |-> FALSE, buf |-> << >>, bus |-> << >> ]
  ELSE LET x == [ kind |-> "read", i2c_addr |-> I2cAddr(addr),
                  addr_bytes |-> AddrBytes(addr), len |-> len ]
           good == fail = 0 /\ DeviceSelected(x.i2c_addr)
       IN  [ ok  |-> good,
             buf |-> IF good THEN DeviceRead(mem, x.i2c_addr, x.addr_bytes, len)
                     ELSE << >>,
             bus |-> << x >> ]

---------------------------------------------------------------------------
(* DeviceInfo.h: the 64-byte strings and the block stored to the EEPROM. *)

\* sizeof(DeviceInfoString::data).
kFieldSize == 64

\* Number of DeviceInfoString members of DeviceInfoBlock.
kFields == 10

\* sizeof(DeviceInfoBlock): ten strings and the checksum byte, no padding.
BlockSize == kFields * kFieldSize + 1

Zeros(n) == [ i \in 1..n |-> 0 ]

\* An isprint that takes every byte from the space on.
IsPrintNoUpper(c) == c >= 32

\* std::isprint in the "C" locale.
IsPrint(c) == c >= 32 /\ c <= 126

\* DeviceInfoString::Clear.
Clear(fld) == [ i \in 1..kFieldSize |-> 0 ]

\* A Validate that reports an 0xFF byte and leaves the string as it is.
ValidateStringReportOnly(fld) ==
  [ ok |-> ~ (\E i \in 1..kFieldSize : fld[i] = Erased), fld |-> fld ]

\* DeviceInfoString::Validate: the return value and the string afterwards.
ValidateString(fld) ==
  IF \E i \in 1..kFieldSize : fld[i] = Erased
  THEN [ ok |-> FALSE, fld |-> Clear(fld) ]
  ELSE [ ok |-> TRUE, fld |-> fld ]

\* A Set that copies up to the whole size of the array.
SetWhole(fld, str) ==
  LET copied == Min(Len(str), kFieldSize)
  IN  [ i \in 1..kFieldSize |-> IF i <= copied THEN str[i] ELSE 0 ]

\* DeviceInfoString::Set: str.copy(data, 63), then zero fill.
Set(fld, str) ==
  LET copied == Min(Len(str), kFieldSize - 1)
  IN  [ i \in 1..kFieldSize |-> IF i <= copied THEN str[i] ELSE 0 ]

\* A Get that stops at a NUL only.
GetToNul(fld) ==
  LET stops == { i \in 1..kFieldSize : fld[i] = 0 }
  IN  IF stops = {} THEN fld
      ELSE SubSeq(fld, 1, (CHOOSE i \in stops : \A j \in stops : i <= j) - 1)

\* DeviceInfoString::Get: the bytes before the first NUL or 0xFF.
Get(fld) ==
  LET stops == { i \in 1..kFieldSize : fld[i] = 0 \/ fld[i] = Erased }
  IN  IF stops = {} THEN fld
      ELSE SubSeq(fld, 1, (CHOOSE i \in stops : \A j \in stops : i <= j) - 1)

\* DeviceInfoString::Sum: the 8-bit sum of the 64 bytes (eight at a time).
Sum8(fld, i) ==
  fld[i] + fld[i + 1] + fld[i + 2] + fld[i + 3] + fld[i + 4] + fld[i + 5]
    + fld[i + 6] + fld[i + 7]

RECURSIVE SumFrom(_, _)
SumFrom(fld, i) ==
  IF i > kFieldSize THEN 0 ELSE (Sum8(fld, i) + SumFrom(fld, i + 8)) % 256

Sum(fld) == SumFrom(fld, 1)

\* Member f (0: mfg, 1: name, 2: ver, 3: date, 4: part, 5: mfgserial,
\* 6: user1, 7: user2, 8: user3, 9: user4) of the block d.
Field(d, f) == SubSeq(d, f * kFieldSize + 1, (f + 1) * kFieldSize)

\* The block d with member f replaced.
WithField(d, f, fld) ==
  SubSeq(d, 1, f * kFieldSize) \o fld \o SubSeq(d, (f + 1) * kFieldSize + 1, BlockSize)

\* The checksum member of d, and d with it replaced.
Checksum(d) == d[BlockSize]
WithChecksum(d, c) == SubSeq(d, 1, BlockSize - 1) \o << c >>

\* The order in which DeviceInfoBlock::Validate visits the members.
ValidateOrder == << 0, 1, 2, 3, 4, 5, 6, 8, 7, 9 >>

\* ok = ok && member.Validate(): no member is looked at after a bad one.
ValidateMemberShortCircuit(r, f) ==
  IF ~ r.ok THEN r
  ELSE Bind(Field(r.data, f), LAMBDA fld :
         Bind(ValidateString(fld), LAMBDA v :
           IF v.ok THEN r
           ELSE [ ok |-> FALSE, data |-> WithField(r.data, f, v.fld) ]))

\* ok &= member.Validate() for member f, r being ok and the block so far.
ValidateMember(r, f) ==
  Bind(Field(r.data, f), LAMBDA fld :
    Bind(ValidateString(fld), LAMBDA v :
      IF v.ok THEN r
      ELSE [ ok |-> FALSE, data |-> WithField(r.data, f, v.fld) ]))

\* DeviceInfoBlock::Validate: every member in turn, from ok = true.
RECURSIVE ValidateFrom(_, _)
ValidateFrom(r, k) ==
  IF k > Len(ValidateOrder) THEN r
  ELSE Bind(ValidateMember(r, ValidateOrder[k]), LAMBDA n : ValidateFrom(n, k + 1))

Validate(d) == ValidateFrom([ ok |-> TRUE, data |-> d ], 1)

\* DeviceInfoBlock::ComputeChecksum: the 8-bit sum of the members' sums.
RECURSIVE ChecksumFrom(_, _)
ChecksumFrom(d, f) ==
  IF f >= kFields THEN 0
  ELSE (Bind(Field(d, f), LAMBDA fld : Sum(fld)) + ChecksumFrom(d, f + 1)) % 256

\* A checksum that leaves mfg out.
ComputeChecksumFromName(d) == ChecksumFrom(d, 1)

ComputeChecksum(d) == ChecksumFrom(d, 0)

\* Character codes of the protocol's texts.
cEQ == 61
cQM == 63
cLF == 10
MFG == << 77, 70, 71 >>
NAME == << 78, 65, 77, 69 >>
VER == << 86, 69, 82 >>
DATE == << 68, 65, 84, 69 >>
PART == << 80, 65, 82, 84 >>
MFGSERIAL == << 77, 70, 71, 83, 69, 82, 73, 65, 76 >>
USER1 == << 85, 83, 69, 82, 49 >>
USER2 == << 85, 83, 69, 82, 50 >>
USER3 == << 85, 83, 69, 82, 51 >>
USER4 == << 85, 83, 69, 82, 52 >>
SERIAL == << 83, 69, 82, 73, 65, 76 >>
CHECK == << 67, 72, 69, 67, 75 >>
PULSECOUNT == << 80, 85, 76, 83, 69, 67, 79, 85, 78, 84 >>
CLEAR == << 67, 76, 69, 65, 82 >>
RESETCOUNT == << 82, 69, 83, 69, 84, 67, 79, 85, 78, 84 >>
OK == << 79, 75 >>
ERR == << 69, 82, 82 >>

\* The keys of DeviceInfoBlock::LookupField, by member.
Keys == << MFG, NAME, VER, DATE, PART, MFGSERIAL, USER1, USER2, USER3, USER4 >>

\* LookupField's nullptr.
NoField == 0 - 1

\* A lookup that takes lower-case letters for upper-case ones.
LookupFieldAnyCase(key) ==
  LET upper == [ i \in 1..Len(key) |->
                   IF key[i] >= 97 /\ key[i] <= 122 THEN key[i] - 32 ELSE key[i] ]
  IN  IF \E f \in 0..(kFields - 1) : Keys[f + 1] = upper
      THEN CHOOSE f \in 0..(kFields - 1) : Keys[f + 1] = upper
      ELSE NoField

\* DeviceInfoBlock::LookupField: the member the key names, or nullptr.
LookupField(key) ==
  IF \E f \in 0..(kFields - 1) : Keys[f + 1] = key
  THEN CHOOSE f \in 0..(kFields - 1) : Keys[f + 1] = key
  ELSE NoField

---------------------------------------------------------------------------
(* main.cpp: persistence of the device info block and of the pulse count. *)

kDeviceInfoAddr == 0
kPulseCountAddr == 2048
kPulseCountWords == 16

\* sizeof(std::uint32_t).
WordBytes == 4

\* 0xFFFFFFFF, the value LoadPulseCount takes for a blank cell.
Blank == << Half - 1, Half - 1 >>

\* A uint32_t as the RP2040 lays it out in memory (little-endian), and back.
ToBytes(v) == << v[2] % 256, v[2] \div 256, v[1] % 256, v[1] \div 256 >>

FromBytes(b) == << b[3] + 256 * b[4], b[1] + 256 * b[2] >>

\* An array of uint32_t as bytes, and back.
WordsToBytes(ws) ==
  [ i \in 1..(WordBytes * Len(ws)) |->
      ToBytes(ws[((i - 1) \div WordBytes) + 1])[((i - 1) % WordBytes) + 1] ]

BytesToWords(bs) ==
  [ k \in 1..(Len(bs) \div WordBytes) |->
      FromBytes(SubSeq(bs, WordBytes * (k - 1) + 1, WordBytes * k)) ]

\* A store of the ten strings without the checksum member.
StoreDeviceInfoStringsOnly(mem, d, fail) ==
  Bind(SubSeq(d, 1, BlockSize - 1), LAMBDA strings :
    Write(mem, kDeviceInfoAddr, strings, fail))

\* StoreDeviceInfo: eeprom.Write(kDeviceInfoAddr, &data, sizeof(data)).
StoreDeviceInfo(mem, d, fail) == Write(mem, kDeviceInfoAddr, d, fail)

\* LoadDeviceInfo: eeprom.Read(kDeviceInfoAddr, &data, sizeof(data)).
LoadDeviceInfo(mem, fail) == Read(mem, kDeviceInfoAddr, BlockSize, fail)

\* A ValidateDeviceInfo that repairs the record in memory only.
ValidateDeviceInfoNoStore(mem, d, fail) ==
  Bind(Validate(d), LAMBDA v :
    IF ~ v.ok
    THEN [ ok |-> TRUE, data |-> WithChecksum(v.data, ComputeChecksum(v.data)),
           mem |-> mem, bus |-> << >> ]
    ELSE [ ok |-> TRUE, data |-> d, mem |-> mem, bus |-> << >> ])

\* ValidateDeviceInfo: if Validate() fails, set the checksum and store.
ValidateDeviceInfo(mem, d, fail) ==
  Bind(Validate(d), LAMBDA v :
    IF ~ v.ok
    THEN Bind(WithChecksum(v.data, ComputeChecksum(v.data)), LAMBDA fixed :
           Bind(StoreDeviceInfo(mem, fixed, fail), LAMBDA w :
             [ ok |-> w.ok, data |-> fixed, mem |-> w.mem, bus |-> w.bus ]))
    ELSE [ ok |-> TRUE, data |-> d, mem |-> mem, bus |-> << >> ])

\* An address that advances by one byte per index.
GetPulseCountAddrBytewise(idx) == kPulseCountAddr + idx

\* GetPulseCountAddr.
GetPulseCountAddr(idx) == kPulseCountAddr + idx * WordBytes

\* An index that counts down.
NextIndexBack(idx, K) == (idx + K - 1) % K

\* The index after idx in an array of K words (line 128, line 179).
NextIndex(idx, K) == (idx + 1) % K

\* A store that takes the address from the index it has already advanced.
StorePulseCountAdvancedFirst(mem, idx, pcv, fail) ==
  Bind(Write(mem, GetPulseCountAddr(NextIndex(idx, kPulseCountWords)), ToBytes(pcv),
             fail), LAMBDA w :
    [ ok |-> w.ok, mem |-> w.mem, bus |-> w.bus,
      next_pulsecount_idx |-> NextIndex(idx, kPulseCountWords) ])

\* StorePulseCount(pc): the new next_pulsecount_idx is set before the write.
StorePulseCount(mem, idx, pcv, fail) ==
  Bind(Write(mem, GetPulseCountAddr(idx), ToBytes(pcv), fail), LAMBDA w :
    [ ok |-> w.ok, mem |-> w.mem, bus |-> w.bus,
      next_pulsecount_idx |-> NextIndex(idx, kPulseCountWords) ])

\* A reset that writes sizeof(dummy[0]) bytes.
ResetPulseCountWriteOneWord(mem, fail) ==
  Bind(ToBytes(N32(0)), LAMBDA dummy : Write(mem, kPulseCountAddr, dummy, fail))

\* The write of ResetPulseCount: kPulseCountWords zero words.
ResetPulseCountWrite(mem, fail) ==
  Bind(WordsToBytes([ i \in 1..kPulseCountWords |-> N32(0) ]), LAMBDA dummy :
    Write(mem, kPulseCountAddr, dummy, fail))

\* A check that zeroes the first blank cell only.
FixBlankFirst(pcs) ==
  [ i \in 1..Len(pcs) |->
      IF pcs[i] = Blank /\ (\A j \in 1..(i - 1) : pcs[j] # Blank) THEN N32(0)
      ELSE pcs[i] ]

\* LoadPulseCount, lines 157-165: blank cells become 0.
FixBlank(pcs) == [ i \in 1..Len(pcs) |-> IF pcs[i] = Blank THEN N32(0) ELSE pcs[i] ]

\* A scan that looks for a successor holding less.
ScanPulseCountsStrict(pcs, K, idx, cnt) ==
  LET hits == { i \in 0..(K - 1) : Less32(pcs[NextIndex(i, K) + 1], pcs[i + 1]) }
  IN  IF hits = {} THEN [ next_pulsecount_idx |-> idx, pulsecount |-> cnt ]
      ELSE LET i == CHOOSE h \in hits : \A g \in hits : h <= g
           IN  [ next_pulsecount_idx |-> NextIndex(i, K), pulsecount |-> pcs[i + 1] ]

\* LoadPulseCount, lines 178-185, for an array of K words: the first i whose
\* successor holds no more than it gives the index and the count; idx and
\* cnt are the values kept if the loop ends without finding one.
ScanPulseCounts(pcs, K, idx, cnt) ==
  LET hits == { i \in 0..(K - 1) : Leq32(pcs[NextIndex(i, K) + 1], pcs[i + 1]) }
  IN  IF hits = {} THEN [ next_pulsecount_idx |-> idx, pulsecount |-> cnt ]
      ELSE LET i == CHOOSE h \in hits : \A g \in hits : h <= g
           IN  [ next_pulsecount_idx |-> NextIndex(i, K), pulsecount |-> pcs[i + 1] ]

\* LoadPulseCount.  failR / failW: transport error in the read / the write.
LoadPulseCount(mem, idx, cnt, failR, failW) ==
  Bind(Read(mem, kPulseCountAddr, WordBytes * kPulseCountWords, failR), LAMBDA r :
    IF ~ r.ok
    THEN [ ok |-> FALSE, mem |-> mem, bus |-> r.bus,
           next_pulsecount_idx |-> idx, pulsecount |-> cnt ]
    ELSE
    Bind(BytesToWords(r.buf), LAMBDA raw :
    Bind(FixBlank(raw), LAMBDA pcs :
    Bind(IF \E i \in 1..Len(raw) : raw[i] = Blank
         THEN Bind(WordsToBytes(pcs), LAMBDA bytes :
                Write(mem, kPulseCountAddr, bytes, failW))
         ELSE [ ok |-> TRUE, mem |-> mem, bus |-> << >> ], LAMBDA w :
      IF ~ w.ok
      THEN [ ok |-> FALSE, mem |-> w.mem, bus |-> r.bus \o w.bus,
             next_pulsecount_idx |-> idx, pulsecount |-> cnt ]
      ELSE Bind(ScanPulseCounts(pcs, kPulseCountWords, idx, cnt), LAMBDA s :
             [ ok |-> TRUE, mem |-> w.mem, bus |-> r.bus \o w.bus,
               next_pulsecount_idx |-> s.next_pulsecount_idx,
               pulsecount |-> s.pulsecount ])))))

\* The transport error fail (the number of the failing transfer of a step,
\* 0: none) as seen by a call made after n transfers of the step.
FailAfter(fail, n) == IF fail > n THEN fail - n ELSE 0

\* main(), lines 297-306: LoadDeviceInfo, ValidateDeviceInfo, LoadPulseCount
\* (each Panic()s on a transport error), last_pulsecount = pulsecount.
Startup(mem, d, idx, cnt, last, fail) ==
  Bind(LoadDeviceInfo(mem, fail), LAMBDA ld :
    IF ~ ld.ok
    THEN [ ok |-> FALSE, mem |-> mem, data |-> d, bus |-> ld.bus,
           next_pulsecount_idx |-> idx, pulsecount |-> cnt, last_pulsecount |-> last ]
    ELSE
    Bind(ValidateDeviceInfo(mem, ld.buf, FailAfter(fail, Len(ld.bus))), LAMBDA vd :
      IF ~ vd.ok
      THEN [ ok |-> FALSE, mem |-> vd.mem, data |-> vd.data, bus |-> ld.bus \o vd.bus,
             next_pulsecount_idx |-> idx, pulsecount |-> cnt, last_pulsecount |-> last ]
      ELSE
      Bind(LoadPulseCount(vd.mem, idx, cnt,
                          FailAfter(fail, Len(ld.bus) + Len(vd.bus)),
                          FailAfter(fail, Len(ld.bus) + Len(vd.bus) + 1)), LAMBDA lp :
        [ ok |-> lp.ok, mem |-> lp.mem, data |-> vd.data,
          bus |-> ld.bus \o vd.bus \o lp.bus,
          next_pulsecount_idx |-> lp.next_pulsecount_idx,
          pulsecount |-> lp.pulsecount,
          last_pulsecount |-> IF lp.ok THEN lp.pulsecount ELSE last ])))

---------------------------------------------------------------------------
(* main.cpp: the serial command handler. *)

\* board_id as pico_get_unique_board_id_string leaves it: 16 hex digits.
board_id == << 69, 54, 54, 48, 53, 56, 51, 56, 56, 51, 55, 52, 52, 65, 50, 66 >>

\* printf("%u", n): the decimal digits of the 32-bit n.
Div10(n) == << n[1] \div 10, ((n[1] % 10) * Half + n[2]) \div 10 >>
Mod10(n) == ((n[1] % 10) * Half + n[2]) % 10

RECURSIVE Decimal(_)
Decimal(n) ==
  IF n[1] = 0 /\ n[2] < 10 THEN << 48 + n[2] >>
  ELSE Decimal(Div10(n)) \o << 48 + Mod10(n) >>

\* printf("%s", p) for p pointing at byte start of bytes: up to the first NUL.
CStringAt(bytes, start) ==
  LET nuls == { i \in start..Len(bytes) : bytes[i] = 0 }
  IN  IF nuls = {} THEN SubSeq(bytes, start, Len(bytes))
      ELSE SubSeq(bytes, start, (CHOOSE i \in nuls : \A j \in nuls : i <= j) - 1)

\* message.find_first_of("=?"): the position (from 1) or 0 for npos.
PunctIdx(message) ==
  LET ps == { i \in 1..Len(message) : message[i] = cEQ \/ message[i] = cQM }
  IN  IF ps = {} THEN 0 ELSE CHOOSE i \in ps : \A j \in ps : i <= j

\* message.substr(0, punct_idx).
Header(message) ==
  IF PunctIdx(message) = 0 THEN message
  ELSE SubSeq(message, 1, PunctIdx(message) - 1)

\* message.substr(punct_idx + 1).
Value(message) == SubSeq(message, PunctIdx(message) + 1, Len(message))

\* What a query prints (lines 236-248); beyond is the memory after data,
\* which %s reads when the block holds no NUL from the field on.
QueryOutput(header, d, cnt, beyond) ==
  IF LookupField(header) # NoField
  THEN Bind(d \o beyond, LAMBDA ram :
         CStringAt(ram, LookupField(header) * kFieldSize + 1)) \o << cLF >>
  ELSE IF header = SERIAL THEN board_id \o << cLF >>
  ELSE IF header = CHECK
       THEN (IF ComputeChecksum(d) = Checksum(d) THEN OK ELSE ERR) \o << cLF >>
  ELSE IF header = PULSECOUNT THEN Decimal(cnt) \o << cLF >>
  ELSE << >>

\* A firmware that never sees the jumper.
WriteLockEnabledNever(level) == FALSE

\* WriteLockEnabled(): the level of PIN_WRLOCK_IN.
WriteLockEnabled(level) == level

\* HandleSerialMessage(message) with the block d, the EEPROM mem, pulsecount
\* cnt and WriteLockEnabled() = lock.  Gives the block and the EEPROM
\* afterwards, the output, the transfers, ok = FALSE if it Panic()s, and
\* reset = TRUE if it is ResetPulseCount that wrote (its three assignments
\* follow).
HandleSerialMessage(message, d, mem, cnt, lock, fail, beyond) ==
  LET same == [ data |-> d, mem |-> mem, out |-> << >>, bus |-> << >>,
                ok |-> TRUE, reset |-> FALSE ]
      header == Header(message)
  IN  IF message = << >> THEN same
      ELSE IF PunctIdx(message) # 0
      THEN IF message[PunctIdx(message)] = cEQ
           THEN IF WriteLockEnabled(lock) THEN same
                ELSE IF LookupField(header) # NoField
                THEN Bind(Value(message), LAMBDA val :
                       IF \E i \in 1..Len(val) : ~ IsPrint(val[i]) THEN same
                       ELSE
                       Bind(Set(Field(d, LookupField(header)), val), LAMBDA fld :
                       Bind(WithField(d, LookupField(header), fld), LAMBDA set :
                       Bind(WithChecksum(set, ComputeChecksum(set)), LAMBDA new :
                       Bind(StoreDeviceInfo(mem, new, fail), LAMBDA w :
                         [ data |-> new, mem |-> w.mem, out |-> << >>,
                           bus |-> w.bus, ok |-> w.ok, reset |-> FALSE ])))))
                ELSE same
           ELSE [ same EXCEPT !.out = QueryOutput(header, d, cnt, beyond) ]
      ELSE IF header = CLEAR
           THEN IF ~ WriteLockEnabled(lock)
                THEN Bind(Zeros(BlockSize), LAMBDA new :
                     Bind(StoreDeviceInfo(mem, new, fail), LAMBDA w :
                       [ data |-> new, mem |-> w.mem, out |-> << >>,
                         bus |-> w.bus, ok |-> w.ok, reset |-> FALSE ]))
                ELSE same
           ELSE IF header = RESETCOUNT
                THEN Bind(ResetPulseCountWrite(mem, fail), LAMBDA w :
                       [ data |-> d, mem |-> w.mem, out |-> << >>,
                         bus |-> w.bus, ok |-> w.ok, reset |-> w.ok ])
                ELSE same

---------------------------------------------------------------------------
(* The environment: what the EEPROM may hold at power-up, what the serial  *)
(* peer sends, and how far the exploration goes.                           *)

\* Counted pulses per behaviour.
MaxPulses == 1

\* The largest number of a bus transfer of a step that may be made to fail
\* (the second one leaves a write half done).
MaxFailPoint == 2

\* The chip's memory with bytes placed from address addr on.
Place(mem, addr, bytes) ==
  LET at(a) == IF a >= addr /\ a < addr + Len(bytes) THEN bytes[a - addr + 1]
               ELSE MemAt(mem, a)
      pages == (DOMAIN mem) \cup { a \div kBytesPerPage : a \in addr..(addr + Len(bytes) - 1) }
      page(p) == [ i \in 1..kBytesPerPage |-> at(p * kBytesPerPage + i - 1) ]
  IN  [ p \in { q \in pages : page(q) # ErasedPage } |-> page(p) ]

\* The erased chip.
ErasedMem == [ p \in {} |-> ErasedPage ]

Text(fld) == Set(Zeros(kFieldSize), fld)

RECURSIVE Concat(_)
Concat(ss) == IF ss = << >> THEN << >> ELSE Head(ss) \o Concat(Tail(ss))

Acme == << 65, 99, 109, 101 >>
Bloomy == << 66, 108, 111, 111, 109, 121 >>
Pico == << 80, 105, 99, 111 >>
V10 == << 49, 46, 48 >>

\* A value of 70 printable characters (longer than a field), '=' and '?'
\* among them.
LongValue ==
  [ i \in 1..70 |-> IF i = 5 THEN cEQ ELSE IF i = 9 THEN cQM ELSE 48 + (i % 10) ]

\* A block as this firmware writes it: texts, zero padding, the checksum.
GoodFields ==
  Concat(<< Text(Bloomy), Text(Pico), Text(V10), Text(<< >>), Text(Pico),
            Text(V10), Text(<< >>), Text(Bloomy), Text(<< >>), Text(V10) >>)

GoodBlock == GoodFields \o << ComputeChecksum(GoodFields \o << 0 >>) >>

\* The same texts under a checksum byte that does not match them.
BadSumBlock == GoodFields \o << (ComputeChecksum(GoodFields \o << 0 >>) + 1) % 256 >>

\* Partly erased: mfg never written, name with one erased byte in its
\* padding, user4 never written, the checksum byte erased.
HalfErasedBlock ==
  Concat(<< [ i \in 1..kFieldSize |-> Erased ],
            [ Text(Pico) EXCEPT ![40] = Erased ],
            Text(V10), Text(<< >>), Text(Pico), Text(V10), Text(<< >>),
            Text(Bloomy), Text(<< >>), [ i \in 1..kFieldSize |-> Erased ] >>)
  \o << Erased >>

\* Written by something else: mfg holds 64 letters and no NUL.
ForeignBlock ==
  Concat(<< [ i \in 1..kFieldSize |-> 65 ], Text(Pico), Text(V10), Text(<< >>),
            Text(Pico), Text(V10), Text(<< >>), Text(Bloomy), Text(<< >>),
            Text(V10) >>) \o << 7 >>

\* Counter arrays: after 18 stores since a reset; close to the top of the
\* 32-bit range; partly blank.
UsedSlots == [ i \in 1..kPulseCountWords |-> IF i <= 2 THEN N32(16 + i) ELSE N32(i) ]
HighSlots ==
  [ i \in 1..kPulseCountWords |-> IF i = 1 THEN << Half - 1, Half - 2 >> ELSE N32(0) ]
HalfBlankSlots == [ i \in 1..kPulseCountWords |-> IF i <= 3 THEN N32(4 + i) ELSE Blank ]
ZeroSlots == [ i \in 1..kPulseCountWords |-> N32(0) ]

Image(block, slots) ==
  Place(Place(ErasedMem, kDeviceInfoAddr, block), kPulseCountAddr, WordsToBytes(slots))

\* What may follow data in RAM (read only by a query of a block without NUL).
Beyond == { << 0 >>, << 33, 0 >> }

\* Lower-case letters for upper-case ones.
Lower(t) == [ i \in 1..Len(t) |-> IF t[i] >= 65 /\ t[i] <= 90 THEN t[i] + 32 ELSE t[i] ]

\* The lines the peer sends while working on the key of member f.
AssignLines(f) ==
  { Keys[f + 1] \o << cEQ >> \o v : v \in { Acme, LongValue } }

QueryLines(f) ==
  { Keys[f + 1] \o << cQM >>, Keys[f + 1] \o << cQM, 120 >>,
    CHECK \o << cQM >>, SERIAL \o << cQM >>, PULSECOUNT \o << cQM >> }

CommandLines == { CLEAR, RESETCOUNT }

\* Lines whose header is no token of their form.
UnknownLines(f) ==
  { Keys[f + 1], Lower(Keys[f + 1]) \o << cEQ >> \o Acme, Lower(Keys[f + 1]) \o << cQM >>,
    CLEAR \o << cQM >>, RESETCOUNT \o << cEQ, 120 >>, SERIAL \o << cEQ >> \o Acme,
    Lower(CLEAR), << cQM >>, Keys[f + 1] \o << 32, cEQ >> \o Acme }

Lines(f) == AssignLines(f) \cup QueryLines(f) \cup CommandLines \cup UnknownLines(f) \cup { << >> }

\* What may follow data in RAM when a line is a query.
BeyondFor(message) ==
  IF \E i \in 1..Len(message) : message[i] = cQM THEN Beyond ELSE { << 0 >> }

\* The transport errors a step that issues the transfers b when none fails
\* may be given: 0 for none, j for the j-th transfer.
FailPoints(b) == 0..Min(Len(b), MaxFailPoint)

\* The EEPROM at power-up and the key the peer works on.
Scenarios ==
  { << ErasedMem, 0 >>,
    << Image(GoodBlock, UsedSlots), 9 >>,
    << Image(BadSumBlock, HighSlots), 1 >>,
    << Image(HalfErasedBlock, HalfBlankSlots), 7 >>,
    << Image(ForeignBlock, ZeroSlots), 9 >> }

NoCall == [ op |-> "none" ]

---------------------------------------------------------------------------
(* The firmware as a state machine. *)

Init ==
  /\ pc = "boot"
  /\ wrlock \in BOOLEAN
  /\ \E s \in Scenarios : eeprom = s[1] /\ peer_key = s[2]
  /\ data = Zeros(BlockSize)
  /\ pulsecount = N32(0)
  /\ last_pulsecount = N32(0)
  /\ next_pulsecount_idx = 0
  /\ ev = "none"
  /\ line = << >>
  /\ out = << >>
  /\ bus = << >>
  /\ call = NoCall
  /\ npulses = 0

\* The peer has taken the reply to its last line.  Until it has, the model
\* lets nothing else happen in a polling firmware: taking the reply changes
\* nothing in the firmware, so every order of the firmware's steps remains.
Taken == pc = "poll" => ev # "line"

\* main() up to the loop.
Boot ==
  /\ pc = "boot"
  /\ \E r0 \in { Startup(eeprom, data, next_pulsecount_idx, pulsecount,
                         last_pulsecount, 0) } :
     \E fail \in FailPoints(r0.bus) :
       \E r \in { IF fail = 0 THEN r0
                  ELSE Startup(eeprom, data, next_pulsecount_idx, pulsecount,
                               last_pulsecount, fail) } :
           /\ pc' = IF r.ok THEN "poll" ELSE "panic"
           /\ eeprom' = r.mem
           /\ data' = r.data
           /\ pulsecount' = r.pulsecount
           /\ last_pulsecount' = r.last_pulsecount
           /\ next_pulsecount_idx' = r.next_pulsecount_idx
           /\ bus' = r.bus
  /\ ev' = "boot"
  /\ line' = << >>
  /\ out' = << >>
  /\ UNCHANGED << wrlock, call, peer_key, npulses >>

\* The GPIO callback counting a pulse (line 330), at most n per behaviour.
PulseUpTo(n) ==
  /\ pc \in { "poll", "flush", "reset" }
  /\ Taken
  /\ npulses < n
  /\ pulsecount' = Add32(pulsecount, N32(1))
  /\ npulses' = npulses + 1
  /\ UNCHANGED << pc, wrlock, eeprom, data, last_pulsecount, next_pulsecount_idx,
                  ev, line, out, bus, call, peer_key >>

Pulse == PulseUpTo(MaxPulses)

\* The jumper between the write lock pins is set or removed (the pin is read
\* by the handler of a line only).
Jumper ==
  /\ pc \in { "boot", "poll" }
  /\ Taken
  /\ wrlock' = ~ wrlock
  /\ UNCHANGED << pc, eeprom, data, pulsecount, last_pulsecount,
                  next_pulsecount_idx, ev, line, out, bus, call, peer_key,
                  npulses >>

\* A loop whose timeout branch stores the count without comparing.
IdleFlushAlways ==
  /\ pc = "poll"
  /\ Taken
  /\ pc' = "flush"
  /\ UNCHANGED << ev, line, out, bus >>
  /\ UNCHANGED << wrlock, eeprom, data, pulsecount, last_pulsecount,
                  next_pulsecount_idx, call, peer_key, npulses >>

\* A loop whose timeout branch never stores the count.
IdleNoFlush ==
  /\ pc = "poll"
  /\ Taken
  /\ pc' = "poll"
  /\ ev' = "idle"
  /\ line' = << >>
  /\ out' = << >>
  /\ bus' = << >>
  /\ UNCHANGED << wrlock, eeprom, data, pulsecount, last_pulsecount,
                  next_pulsecount_idx, call, peer_key, npulses >>

\* getchar_timeout_us timed out (line 341) and the comparison of line 342.
Idle ==
  /\ pc = "poll"
  /\ Taken
  /\ IF pulsecount # last_pulsecount
     THEN /\ pc' = "flush"
          /\ UNCHANGED << ev, line, out, bus >>
     ELSE /\ pc' = "poll"
          /\ ev' = "idle"
          /\ line' = << >>
          /\ out' = << >>
          /\ bus' = << >>
  /\ UNCHANGED << wrlock, eeprom, data, pulsecount, last_pulsecount,
                  next_pulsecount_idx, call, peer_key, npulses >>

\* StorePulseCount(last_pulsecount = pulsecount) (line 343).
FlushStep ==
  /\ pc = "flush"
  /\ \E r0 \in { StorePulseCount(eeprom, next_pulsecount_idx, pulsecount, 0) } :
     \E fail \in FailPoints(r0.bus) :
       \E r \in { IF fail = 0 THEN r0
                  ELSE StorePulseCount(eeprom, next_pulsecount_idx, pulsecount, fail) } :
           /\ pc' = IF r.ok THEN "poll" ELSE "panic"
           /\ eeprom' = r.mem
           /\ next_pulsecount_idx' = r.next_pulsecount_idx
           /\ bus' = r.bus
  /\ last_pulsecount' = pulsecount
  /\ ev' = "flush"
  /\ line' = << >>
  /\ out' = << >>
  /\ UNCHANGED << wrlock, data, pulsecount, peer_key, npulses >>

Flush == FlushStep /\ UNCHANGED call

\* A carriage return arrived: HandleSerialMessage(rdbuf) (line 353), rdbuf
\* holding one of lines.
DispatchOf(lines) ==
  /\ pc = "poll"
  /\ Taken
  /\ \E message \in lines :
     \E beyond \in BeyondFor(message) :
     \E r0 \in { HandleSerialMessage(message, data, eeprom, pulsecount, wrlock,
                                     0, beyond) } :
     \E fail \in FailPoints(r0.bus) :
       \E r \in { IF fail = 0 THEN r0
                  ELSE HandleSerialMessage(message, data, eeprom, pulsecount, wrlock,
                                           fail, beyond) } :
           /\ pc' = IF ~ r.ok THEN "panic" ELSE IF r.reset THEN "reset" ELSE "poll"
           /\ data' = r.data
           /\ eeprom' = r.mem
           /\ out' = r.out
           /\ bus' = r.bus
           /\ line' = message
  /\ ev' = "line"
  /\ UNCHANGED << wrlock, pulsecount, last_pulsecount, next_pulsecount_idx,
                  call, peer_key, npulses >>

Dispatch == DispatchOf(Lines(peer_key))

\* The peer takes the reply to its line.
Consume ==
  /\ pc = "poll"
  /\ ev = "line"
  /\ ev' = "none"
  /\ line' = << >>
  /\ out' = << >>
  /\ bus' = << >>
  /\ UNCHANGED << pc, wrlock, eeprom, data, pulsecount, last_pulsecount,
                  next_pulsecount_idx, call, peer_key, npulses >>

\* The assignments that end ResetPulseCount (lines 143-145).
ResetDone ==
  /\ pc = "reset"
  /\ pc' = "poll"
  /\ pulsecount' = N32(0)
  /\ last_pulsecount' = N32(0)
  /\ next_pulsecount_idx' = 0
  /\ UNCHANGED << wrlock, eeprom, data, ev, line, out, bus, call, peer_key,
                  npulses >>

\* Power is cycled: the statics are zero again, the EEPROM keeps its content.
\* A firmware in Panic() (lines 80-85) is left there.
Reboot ==
  /\ pc \notin { "boot", "panic" }
  /\ Taken
  /\ pc' = "boot"
  /\ data' = Zeros(BlockSize)
  /\ pulsecount' = N32(0)
  /\ last_pulsecount' = N32(0)
  /\ next_pulsecount_idx' = 0
  /\ ev' = "none"
  /\ line' = << >>
  /\ out' = << >>
  /\ bus' = << >>
  /\ UNCHANGED << wrlock, eeprom, call, peer_key, npulses >>

Next ==
  \/ Boot
  \/ Pulse
  \/ Jumper
  \/ Idle
  \/ Flush
  \/ Dispatch
  \/ Consume
  \/ ResetDone
  \/ Reboot

Spec == Init /\ [][Next]_vars

---------------------------------------------------------------------------
(* The driver alone: Write and Read called directly, as a test on the     *)
(* bench would call them.                                                  *)

\* Write calls per behaviour.
MaxWrites == 1

\* Test bytes: 0x00 and 0xFF are among the first 256 of them.
Pattern(n, k) == [ i \in 1..n |-> (251 * i + k) % 256 ]

\* Addresses of the calls: the start of the array, the end of a page, the
\* end of a 64 KiB bank, the end of the array, and two out of range.
TestAddrs == { 0, 250, 65530, 261543, 261544, 262144 }

\* Buffers of the calls (none, one byte, inside a page, three pages long).
TestBufs == { << >>, << Erased >>, Pattern(6, 5), Pattern(600, 0) }

\* What the chip holds before the calls.
TestMems ==
  { ErasedMem,
    Place(Place(Place(ErasedMem, 0, Pattern(700, 1)), 65280, Pattern(900, 2)),
          261400, Pattern(744, 3)) }

InitEeprom ==
  /\ pc = "driver"
  /\ wrlock = FALSE
  /\ eeprom \in TestMems
  /\ data = << >>
  /\ pulsecount = N32(0)
  /\ last_pulsecount = N32(0)
  /\ next_pulsecount_idx = 0
  /\ ev = "none"
  /\ line = << >>
  /\ out = << >>
  /\ bus = << >>
  /\ call = [ op |-> "none", addr |-> 0, len |-> 0, buf |-> << >>, ok |-> TRUE,
              fail |-> 0, mem0 |-> ErasedMem, writes |-> 0,
              last |-> [ ok |-> FALSE, addr |-> 0, buf |-> << >> ] ]
  /\ peer_key = 0
  /\ npulses = 0

\* eeprom.Write(addr, buf, len).
WriteCall ==
  /\ pc = "driver"
  /\ call.writes < MaxWrites
  /\ \E addr \in TestAddrs, buf \in TestBufs :
     \E r0 \in { Write(eeprom, addr, buf, 0) } :
     \E fail \in FailPoints(r0.bus) :
       \E r \in { IF fail = 0 THEN r0 ELSE Write(eeprom, addr, buf, fail) } :
           /\ eeprom' = r.mem
           /\ bus' = r.bus
           /\ call' = [ op |-> "write", addr |-> addr, len |-> Len(buf), buf |-> buf,
                        ok |-> r.ok, fail |-> fail, mem0 |-> eeprom,
                        writes |-> call.writes + 1,
                        last |-> [ ok |-> r.ok, addr |-> addr, buf |-> buf ] ]
  /\ UNCHANGED << pc, wrlock, data, pulsecount, last_pulsecount,
                  next_pulsecount_idx, ev, line, out, peer_key, npulses >>

\* eeprom.Read(addr, buf, len) after a write or first of all, with the
\* length of the last buffer written, of none or of a short one.
ReadCall ==
  /\ pc = "driver"
  /\ call.op # "read"
  /\ \E addr \in TestAddrs, len \in { Len(call.last.buf), 0, 6 } :
     \E r0 \in { Read(eeprom, addr, len, 0) } :
     \E fail \in FailPoints(r0.bus) :
       \E r \in { IF fail = 0 THEN r0 ELSE Read(eeprom, addr, len, fail) } :
           /\ bus' = r.bus
           /\ call' = [ op |-> "read", addr |-> addr, len |-> len, buf |-> r.buf,
                        ok |-> r.ok, fail |-> fail, mem0 |-> eeprom,
                        writes |-> call.writes, last |-> call.last ]
  /\ UNCHANGED << pc, wrlock, eeprom, data, pulsecount, last_pulsecount,
                  next_pulsecount_idx, ev, line, out, peer_key, npulses >>

NextEeprom ==
  \/ WriteCall
  \/ ReadCall

SpecEeprom == InitEeprom /\ [][NextEeprom]_vars

---------------------------------------------------------------------------
(* The pulse count store alone: ResetPulseCount, StorePulseCount with      *)
(* values that grow, and LoadPulseCount as after a reboot.                 *)

\* StorePulseCount calls per behaviour (one more than there are slots).
MaxStores == 17

\* The values a store may be given after the value v: the next one, and the
\* two largest of a uint32.
StoreValues(v) ==
  { w \in { Add32(v, N32(1)), << Half - 1, Half - 2 >>, Blank } : Less32(v, w) }

\* The values a first store may be given.
FirstValues == { N32(0), N32(1), << Half - 1, Half - 2 >>, Blank }

\* How many of the write transfers of xs reach a byte of counter slot i.
WritesToSlot(xs, i) ==
  Cardinality({ k \in 1..Len(xs) :
                  /\ xs[k].kind = "write"
                  /\ \E a \in { DeviceAddr(xs[k].i2c_addr, xs[k].addr_bytes) } :
                       /\ a < GetPulseCountAddr(i) + WordBytes
                       /\ GetPulseCountAddr(i) < a + Len(xs[k].data) })

\* No write to any slot.
NoWrites == [ i \in 0..(kPulseCountWords - 1) |-> 0 ]

InitCounter ==
  /\ pc = "counter"
  /\ wrlock = FALSE
  /\ eeprom \in { ErasedMem, Image(GoodBlock, UsedSlots),
                  Image(GoodBlock, HalfBlankSlots) }
  /\ data = << >>
  /\ pulsecount = N32(0)
  /\ last_pulsecount = N32(0)
  /\ next_pulsecount_idx = 0
  /\ ev = "none"
  /\ line = << >>
  /\ out = << >>
  /\ bus = << >>
  /\ call = [ op |-> "none", fresh |-> FALSE, stores |-> 0, value |-> N32(0),
              slot |-> 0, mem0 |-> ErasedMem, pure |-> FALSE, writes |-> NoWrites ]
  /\ peer_key = 0
  /\ npulses = 0

\* ResetPulseCount().
CounterReset ==
  /\ pc = "counter"
  /\ \E r \in { ResetPulseCountWrite(eeprom, 0) } :
       /\ eeprom' = r.mem
       /\ bus' = r.bus
  /\ pulsecount' = N32(0)
  /\ last_pulsecount' = N32(0)
  /\ next_pulsecount_idx' = 0
  /\ call' = [ op |-> "reset", fresh |-> TRUE, stores |-> 0, value |-> N32(0),
               slot |-> 0, mem0 |-> eeprom, pure |-> TRUE, writes |-> NoWrites ]
  /\ UNCHANGED << pc, wrlock, data, ev, line, out, peer_key, npulses >>

\* StorePulseCount(pcv), pcv larger than what was stored before.
CounterStore ==
  /\ pc = "counter"
  /\ call.fresh
  /\ call.stores < MaxStores
  /\ \E pcv \in IF call.stores = 0 THEN FirstValues ELSE StoreValues(call.value) :
     \E r \in { StorePulseCount(eeprom, next_pulsecount_idx, pcv, 0) } :
       /\ eeprom' = r.mem
       /\ bus' = r.bus
       /\ next_pulsecount_idx' = r.next_pulsecount_idx
       /\ call' = [ op |-> "store", fresh |-> TRUE, stores |-> call.stores + 1,
                    value |-> pcv, slot |-> next_pulsecount_idx, mem0 |-> eeprom,
                    pure |-> call.pure,
                    writes |-> [ i \in 0..(kPulseCountWords - 1) |->
                                   call.writes[i] + WritesToSlot(r.bus, i) ] ]
  /\ UNCHANGED << pc, wrlock, data, pulsecount, last_pulsecount, ev, line, out,
                  peer_key, npulses >>

\* LoadPulseCount() with the statics as a reboot leaves them.
CounterLoad ==
  /\ pc = "counter"
  /\ call.op # "load"
  /\ \E r \in { LoadPulseCount(eeprom, 0, N32(0), 0, 0) } :
       /\ eeprom' = r.mem
       /\ bus' = r.bus
       /\ next_pulsecount_idx' = r.next_pulsecount_idx
       /\ pulsecount' = r.pulsecount
       /\ call' = [ op |-> "load",
                    fresh |-> call.fresh \/ (call.op = "none" /\ eeprom = ErasedMem),
                    stores |-> call.stores, value |-> call.value,
                    slot |-> call.slot, mem0 |-> eeprom,
                    pure |-> call.op = "none" /\ eeprom = ErasedMem,
                    writes |-> NoWrites ]
  /\ UNCHANGED << pc, wrlock, data, last_pulsecount, ev, line, out, peer_key,
                  npulses >>

NextCounter ==
  \/ CounterReset
  \/ CounterStore
  \/ CounterLoad

SpecCounter == InitCounter /\ [][NextCounter]_vars

---------------------------------------------------------------------------
(* Properties of the driver (SpecEeprom).                                  *)

\* The bytes of the chip outside [a, a + n) are the same in m0 and m1.
SameOutside(m0, m1, a, n) ==
  \A p \in (DOMAIN m0) \cup (DOMAIN m1) :
    \E old \in { PageOf(m0, p) } : \E new \in { PageOf(m1, p) } :
      \A i \in 1..kBytesPerPage :
        (p * kBytesPerPage + i - 1 < a \/ p * kBytesPerPage + i - 1 >= a + n)
          => old[i] = new[i]

\* The latest call has an address in 0..2^18-1, a length above 0 and
\* address + length < 262144, and no transport error was made.
InRangeNoError ==
  /\ call.addr >= 0
  /\ call.addr < 262144
  /\ call.len > 0
  /\ call.addr + call.len < 262144
  /\ call.fail = 0

\* C1: a Write of a non-empty b at a, a + len(b) < 262144, with no transport
\* error returns true, changes no byte outside [a, a + len(b)), and a
\* following Read(a, len(b)) returns true and yields exactly b.
WriteReadRoundTrip ==
  /\ (call.op = "write" /\ InRangeNoError)
       => /\ call.ok
          /\ SameOutside(call.mem0, eeprom, call.addr, call.len)
          /\ \E r \in { Read(eeprom, call.addr, call.len, 0) } :
               r.ok /\ r.buf = call.buf
  /\ (call.op = "read" /\ InRangeNoError /\ call.last.ok
        /\ call.addr = call.last.addr /\ call.len = Len(call.last.buf))
       => call.ok /\ call.buf = call.last.buf

\* A read back of 600 bytes written across the end of the first 64 KiB bank.
RoundTripAcrossBank ==
  /\ call.op = "read"
  /\ call.ok
  /\ call.last.ok
  /\ call.addr = 65530
  /\ call.last.addr = 65530
  /\ call.len = 600
  /\ call.buf = call.last.buf

\* Bytes sent by the transfers before the j-th of xs.
RECURSIVE SentBefore(_, _)
SentBefore(xs, j) ==
  IF j <= 1 THEN 0 ELSE SentBefore(xs, j - 1) + Len(xs[j - 1].data)

\* C2: the sub-transfers of an accepted Write(a, b): the first of length
\* min(len(b), 256 - a mod 256), the others of length min(remaining, 256)
\* from a page-aligned address; none crosses a page boundary; each is
\* addressed at a plus the bytes already sent; their data in order is b.
PageAlignedSubTransfers ==
  (call.op = "write" /\ call.fail = 0 /\ Accepted(call.addr, call.len))
    => /\ Len(bus) >= 1
       /\ SentBefore(bus, Len(bus) + 1) = call.len
       /\ \A j \in 1..Len(bus) :
            \E sent \in { SentBefore(bus, j) } :
            \E start \in { DeviceAddr(bus[j].i2c_addr, bus[j].addr_bytes) } :
            \E m \in { Len(bus[j].data) } :
              /\ bus[j].kind = "write"
              /\ start = call.addr + sent
              /\ m = IF j = 1
                     THEN Min(call.len, 256 - (call.addr % 256))
                     ELSE Min(call.len - sent, 256)
              /\ j > 1 => start % 256 = 0
              /\ (start % 256) + m <= 256
              /\ bus[j].data = SubSeq(call.buf, sent + 1, sent + m)

\* A write of 600 bytes from the 250th byte of a page: 6, 256, 256 and 82.
FourChunks ==
  /\ call.op = "write"
  /\ call.ok
  /\ call.addr = 250
  /\ call.len = 600
  /\ Len(bus) = 4
  /\ Len(bus[1].data) = 6
  /\ Len(bus[4].data) = 82

---------------------------------------------------------------------------
(* Properties of the firmware (Spec).                                      *)

\* A step of main() that hands a line to HandleSerialMessage.
DispatchStep == ev # "line" /\ ev' = "line"

\* The sum of the bytes lo..hi of d.
RECURSIVE SumRange(_, _, _)
SumRange(d, lo, hi) ==
  IF lo > hi THEN 0
  ELSE IF lo = hi THEN d[lo]
  ELSE SumRange(d, lo, (lo + hi) \div 2) + SumRange(d, ((lo + hi) \div 2) + 1, hi)

\* The 8-bit wraparound sum of the 640 bytes of the ten fields of d.
FieldsSum(d) == SumRange(d, 1, kFields * kFieldSize) % 256

\* The identity keys k for which l is  k=...  (none or one).
KeyOfAssign(l) ==
  { k \in 0..(kFields - 1) :
      /\ Len(l) > Len(Keys[k + 1])
      /\ SubSeq(l, 1, Len(Keys[k + 1]) + 1) = Keys[k + 1] \o << cEQ >> }

\* The value v of the line  k=v.
ValueOfAssign(l, k) == SubSeq(l, Len(Keys[k + 1]) + 2, Len(l))

Printable(v) == \A i \in 1..Len(v) : v[i] >= 32 /\ v[i] <= 126

\* v truncated to its first 63 bytes.
Trunc63(v) == SubSeq(v, 1, Min(Len(v), 63))

\* The bytes 0..640 of the EEPROM are the block d.
Persisted(mem, d) == \A i \in 1..BlockSize : MemAt(mem, kDeviceInfoAddr + i - 1) = d[i]

\* The bytes 0..640 of the EEPROM are the same in m0 and m1.
SameRecord(m0, m1) ==
  \A i \in 1..BlockSize :
    MemAt(m0, kDeviceInfoAddr + i - 1) = MemAt(m1, kDeviceInfoAddr + i - 1)

\* C3: a line k=v for an identity key k and a printable v changes neither
\* the record in memory nor a persisted byte while the write lock denies
\* writing; with writing permitted the field becomes the first 63 bytes of
\* v, zero filled, the checksum is recomputed and the whole record is
\* persisted; and a query k? of a field set that way emits those bytes and
\* a newline.
AssignmentGatedThenQueried ==
  [][ DispatchStep =>
        /\ \A k \in KeyOfAssign(line') :
           \E v \in { ValueOfAssign(line', k) } :
             Printable(v) =>
               IF wrlock
               THEN data' = data /\ eeprom' = eeprom
               ELSE pc' = "poll" =>
                      /\ Field(data', k) = Trunc63(v) \o Zeros(kFieldSize - Len(Trunc63(v)))
                      /\ \A g \in 0..(kFields - 1) :
                           g # k => Field(data', g) = Field(data, g)
                      /\ data'[BlockSize] = FieldsSum(data')
                      /\ Persisted(eeprom', data')
        /\ \A k \in 0..(kFields - 1) :
             line' = Keys[k + 1] \o << cQM >> =>
               \A f \in { Field(data, k) } :
               \A n \in 0..(kFieldSize - 1) :
                 ( /\ \A i \in 1..n : IsPrint(f[i])
                   /\ \A i \in (n + 1)..kFieldSize : f[i] = 0 )
                   => out' = SubSeq(f, 1, n) \o << cLF >>
    ]_vars

\* The peer's key holds the first 63 bytes of a 70-byte value and the query
\* has just emitted them.
LongValueQueried ==
  /\ ev = "line"
  /\ line = Keys[peer_key + 1] \o << cQM >>
  /\ Field(data, peer_key) = Trunc63(LongValue) \o << 0 >>
  /\ out = Trunc63(LongValue) \o << cLF >>
  /\ Persisted(eeprom, data)

\* C4: CHECK? emits OK exactly when the 8-bit sum of the 640 field bytes
\* equals the checksum byte and ERR otherwise; after an accepted assignment
\* the two are equal, so that CHECK? emits OK then.
CheckReportsChecksum ==
  [][ DispatchStep =>
        /\ line' = CHECK \o << cQM >> =>
             /\ out' = (IF FieldsSum(data) = data[BlockSize] THEN OK ELSE ERR) \o << cLF >>
             /\ data' = data
        /\ \A k \in KeyOfAssign(line') :
             (Printable(ValueOfAssign(line', k)) /\ ~ wrlock)
               => FieldsSum(data') = data'[BlockSize]
    ]_vars

\* CHECK? has just emitted ERR.
CheckEmitsErr ==
  /\ ev = "line"
  /\ line = CHECK \o << cQM >>
  /\ out = ERR \o << cLF >>
  /\ FieldsSum(data) # data[BlockSize]

\* C5: a bare CLEAR with writing permitted leaves all ten fields and the
\* checksum zero in memory and in the EEPROM, and in a record like that
\* every field query emits an empty line and CHECK? emits OK; with writing
\* denied CLEAR changes neither the record in memory nor a persisted byte.
ClearGated ==
  [][ DispatchStep =>
        /\ line' = CLEAR =>
             IF wrlock
             THEN data' = data /\ eeprom' = eeprom
             ELSE pc' = "poll" =>
                    /\ \A i \in 1..BlockSize : data'[i] = 0
                    /\ Persisted(eeprom', data')
        /\ (\E k \in 0..(kFields - 1) : line' = Keys[k + 1] \o << cQM >>)
             => ((\A i \in 1..BlockSize : data[i] = 0) => out' = << cLF >>)
        /\ line' = CHECK \o << cQM >>
             => ((\A i \in 1..BlockSize : data[i] = 0) => out' = OK \o << cLF >>)
    ]_vars

\* CLEAR has just zeroed a record that came with a name in it.
ClearedRecord ==
  /\ ev = "line"
  /\ line = CLEAR
  /\ pc = "poll"
  /\ ~ wrlock
  /\ peer_key = 1
  /\ \A i \in 1..BlockSize : data[i] = 0 /\ MemAt(eeprom, i - 1) = 0

\* The members of the record in the EEPROM mem that hold a 0xFF byte.
ErasedMembers(mem) ==
  { f \in 0..(kFields - 1) :
      \E i \in 1..kFieldSize : MemAt(mem, kDeviceInfoAddr + f * kFieldSize + i - 1) = 255 }

\* C7: after start-up every field that held a 0xFF byte in the EEPROM is
\* zero in memory and in the EEPROM and every other field is as it was; if
\* a field was zeroed the stored checksum is the sum of the fields; if none
\* held 0xFF start-up writes nothing to the identity record.
StartupValidates ==
  [][ (pc = "boot" /\ pc' = "poll") =>
        \E bad \in { ErasedMembers(eeprom) } :
          /\ \A f \in 0..(kFields - 1) : \A i \in 1..kFieldSize :
               /\ data'[f * kFieldSize + i] =
                    IF f \in bad THEN 0
                    ELSE MemAt(eeprom, kDeviceInfoAddr + f * kFieldSize + i - 1)
               /\ MemAt(eeprom', kDeviceInfoAddr + f * kFieldSize + i - 1) =
                    data'[f * kFieldSize + i]
          /\ bad # {} =>
               /\ data'[BlockSize] = FieldsSum(data')
               /\ MemAt(eeprom', kDeviceInfoAddr + BlockSize - 1) = FieldsSum(data')
          /\ bad = {} =>
               /\ SameRecord(eeprom, eeprom')
               /\ data'[BlockSize] = MemAt(eeprom, kDeviceInfoAddr + BlockSize - 1)
               /\ \A j \in 1..Len(bus') :
                    bus'[j].kind = "write" =>
                      DeviceAddr(bus'[j].i2c_addr, bus'[j].addr_bytes)
                        >= kDeviceInfoAddr + BlockSize
    ]_vars

\* Start-up has just zeroed some fields of a record and kept the others.
StartupRepaired ==
  /\ pc = "poll"
  /\ ev = "boot"
  /\ \E j \in 1..Len(bus) :
       bus[j].kind = "write" /\ DeviceAddr(bus[j].i2c_addr, bus[j].addr_bytes) = kDeviceInfoAddr
  /\ \E f \in 0..(kFields - 1) : Field(data, f)[1] # 0
  /\ \E f \in 0..(kFields - 1) : Field(data, f) = Zeros(kFieldSize)
  /\ data[BlockSize] # 0
  /\ Persisted(eeprom, data)

\* The write lock denies writing and no step changes a persisted byte.
NoPersistedChangeWhileDenied == [][ wrlock => eeprom' = eeprom ]_vars

\* C8: while the write lock denies writing, no line other than RESETCOUNT
\* changes a persisted byte or the record in memory; the persisted bytes
\* change only at start-up, in the idle flush of the pulse count and by
\* RESETCOUNT, and the identity record only at start-up.
DeniedLinesPersistNothing ==
  [][ wrlock =>
        /\ (DispatchStep /\ line' # RESETCOUNT) => (eeprom' = eeprom /\ data' = data)
        /\ eeprom' # eeprom =>
             /\ \/ pc = "boot"
                \/ pc = "flush"
                \/ DispatchStep /\ line' = RESETCOUNT
             /\ pc # "boot" => SameRecord(eeprom, eeprom')
    ]_vars

\* The write lock has just denied an assignment of Acme to the peer's key.
AssignmentDenied ==
  /\ wrlock
  /\ ev = "line"
  /\ pc = "poll"
  /\ line = Keys[peer_key + 1] \o << cEQ >> \o Acme
  /\ Field(data, peer_key) # Acme \o Zeros(kFieldSize - Len(Acme))
  /\ Persisted(eeprom, data)

\* The 16 pulse count slots of the EEPROM mem are zero.
SlotsZero(mem) ==
  \A i \in 0..(WordBytes * kPulseCountWords - 1) : MemAt(mem, kPulseCountAddr + i) = 0

\* C9: a bare RESETCOUNT, write lock or not, writes zero to all the counter
\* slots and leaves the identity record as it is; the next write index, the
\* counter in memory and the last flushed value are 0 when it is done.
ResetCountUnconditional ==
  [][ /\ (DispatchStep /\ line' = RESETCOUNT /\ pc' # "panic") =>
           /\ pc' = "reset"
           /\ SlotsZero(eeprom')
           /\ SameRecord(eeprom, eeprom')
           /\ data' = data
      /\ (pc = "reset" /\ pc' = "poll") =>
           /\ next_pulsecount_idx' = 0
           /\ pulsecount' = N32(0)
           /\ last_pulsecount' = N32(0)
           /\ eeprom' = eeprom
           /\ data' = data
    ]_vars

\* RESETCOUNT is done under the write lock, the identity record in place.
ResetDoneUnderLock ==
  /\ wrlock
  /\ pc = "poll"
  /\ ev = "line"
  /\ line = RESETCOUNT
  /\ SlotsZero(eeprom)
  /\ next_pulsecount_idx = 0
  /\ pulsecount = N32(0)
  /\ last_pulsecount = N32(0)
  /\ data[1] # 0
  /\ Persisted(eeprom, data)

\* The first '=' or '?' of l (0: none).
FirstPunct(l) ==
  IF \E i \in 1..Len(l) : l[i] = cEQ \/ l[i] = cQM
  THEN CHOOSE i \in 1..Len(l) :
         /\ l[i] = cEQ \/ l[i] = cQM
         /\ \A j \in 1..(i - 1) : l[j] # cEQ /\ l[j] # cQM
  ELSE 0

\* The header of l is no token of the form of l.
Unrecognised(l) ==
  \E p \in { FirstPunct(l) } :
    IF p = 0 THEN l # CLEAR /\ l # RESETCOUNT
    ELSE \E h \in { SubSeq(l, 1, p - 1) } :
           /\ \A k \in 1..kFields : h # Keys[k]
           /\ l[p] = cQM => (h # SERIAL /\ h # CHECK /\ h # PULSECOUNT)

\* C10: a line whose header is not a token of its form (an = line whose
\* header is none of the ten keys, a ? line whose header is none of them
\* nor SERIAL, CHECK or PULSECOUNT, a bare line other than CLEAR and
\* RESETCOUNT) prints nothing and changes nothing in memory or the EEPROM.
UnknownLinesIgnored ==
  [][ (DispatchStep /\ Unrecognised(line')) =>
        /\ out' = << >>
        /\ bus' = << >>
        /\ pc' = "poll"
        /\ UNCHANGED << data, eeprom, pulsecount, last_pulsecount,
                        next_pulsecount_idx, wrlock >>
    ]_vars

\* An assignment under the key in lower case has just been ignored with
\* writing permitted.
LowerCaseIgnored ==
  /\ ev = "line"
  /\ pc = "poll"
  /\ ~ wrlock
  /\ line = Lower(Keys[peer_key + 1]) \o << cEQ >> \o Acme
  /\ out = << >>
  /\ bus = << >>

---------------------------------------------------------------------------
(* Properties of the pulse count store (SpecCounter).                      *)

\* C6: from an array left by ResetPulseCount or by LoadPulseCount on an
\* erased array, after stores of growing values LoadPulseCount gives the
\* value stored last and, as the next write index, the successor modulo K
\* of the slot written last.
LoadRecoversLastStore ==
  (call.op = "load" /\ call.fresh /\ call.stores > 0)
    => /\ pulsecount = call.value
       /\ next_pulsecount_idx = (call.slot + 1) % kPulseCountWords

---------------------------------------------------------------------------
(* The argument checks of the driver: Write and Read called with 32-bit    *)
(* addresses and lengths, in range and out of range (SpecArgs).            *)

\* The bytes the caller owns behind the pointer buf.
ArgBuf == Pattern(kBytesPerPage, 7)

\* Addresses of the calls: in range, the last byte, bit 18 and above.
ArgAddrs ==
  { N32(0), N32(1), N32(250), N32(261888), N32(262143), N32(262144),
    << 8, 0 >>, << Half - 1, Half - 1 >> }

\* Lengths of the calls: none, short, a page, the capacity, and lengths whose
\* sum with an address passes 2^32.
ArgLens ==
  { N32(0), N32(1), N32(6), N32(256), N32(262144), << Half \div 2, 0 >>,
    << Half - 4, 0 >>, << Half - 1, Half - 250 >>, << Half - 1, Half - 1 >> }

\* AT24CM02::Write(addr, buf, len) for 32-bit addr and len.  A call that
\* passes the checks with len no more than the caller's bytes is Write; one
\* that passes them with a larger len starts the loop all the same: its
\* first sub-transfer goes out and is written, and the rounds after it read
\* beyond the caller's bytes (undefined), so the return value is left open
\* and only the first sub-transfer is kept here.
Write32(mem, addr, len, buf, fail) ==
  IF ~ Accepted32(addr, len)
  THEN { [ ok |-> FALSE, mem |-> mem, bus |-> << >> ] }
  ELSE IF len[1] = 0 /\ len[2] <= Len(buf)
  THEN { Write(mem, Nat32(addr), SubSeq(buf, 1, len[2]), fail) }
  ELSE LET first == SubTransfer(Nat32(addr), buf, 0,
                                kBytesPerPage - (Nat32(addr) % kBytesPerPage))
       IN  { [ ok |-> b, mem |-> DevicePageWrite(mem, first), bus |-> << first >> ] :
               b \in BOOLEAN }

\* AT24CM02::Read(addr, buf, len) for 32-bit addr and len.  A call that
\* passes the checks issues its one transfer; with len beyond the caller's
\* buffer the bytes land outside it (undefined) and are not kept here.
Read32(mem, addr, len, fail) ==
  IF ~ Accepted32(addr, len)
  THEN { [ ok |-> FALSE, buf |-> << >>, bus |-> << >> ] }
  ELSE IF len[1] = 0 /\ len[2] <= kBytesPerPage
  THEN { Read(mem, Nat32(addr), len[2], fail) }
  ELSE { [ ok |-> b, buf |-> << >>,
           bus |-> << [ kind |-> "read", i2c_addr |-> I2cAddr(Nat32(addr)),
                        addr_bytes |-> AddrBytes(Nat32(addr)), len |-> len ] >> ] :
           b \in BOOLEAN }

InitArgs ==
  /\ pc = "args"
  /\ wrlock = FALSE
  /\ eeprom = Place(ErasedMem, 0, Pattern(700, 1))
  /\ data = << >>
  /\ pulsecount = N32(0)
  /\ last_pulsecount = N32(0)
  /\ next_pulsecount_idx = 0
  /\ ev = "none"
  /\ line = << >>
  /\ out = << >>
  /\ bus = << >>
  /\ \E addr \in ArgAddrs, len \in ArgLens :
       call = [ op |-> "none", addr |-> addr, len |-> len, ok |-> TRUE,
                mem0 |-> ErasedMem ]
  /\ peer_key = 0
  /\ npulses = 0

\* eeprom.Write(call.addr, ArgBuf, call.len).
WriteArgs ==
  /\ pc = "args"
  /\ call.op = "none"
  /\ \E r \in Write32(eeprom, call.addr, call.len, ArgBuf, 0) :
       /\ eeprom' = r.mem
       /\ bus' = r.bus
       /\ call' = [ call EXCEPT !.op = "write", !.ok = r.ok, !.mem0 = eeprom ]
  /\ UNCHANGED << pc, wrlock, data, pulsecount, last_pulsecount,
                  next_pulsecount_idx, ev, line, out, peer_key, npulses >>

\* eeprom.Read(call.addr, buf, call.len).
ReadArgs ==
  /\ pc = "args"
  /\ call.op = "none"
  /\ \E r \in Read32(eeprom, call.addr, call.len, 0) :
       /\ bus' = r.bus
       /\ call' = [ call EXCEPT !.op = "read", !.ok = r.ok, !.mem0 = eeprom ]
  /\ UNCHANGED << pc, wrlock, eeprom, data, pulsecount, last_pulsecount,
                  next_pulsecount_idx, ev, line, out, peer_key, npulses >>

NextArgs ==
  \/ WriteArgs
  \/ ReadArgs

SpecArgs == InitArgs /\ [][NextArgs]_vars

---------------------------------------------------------------------------
(* Properties of the argument checks (SpecArgs).                           *)

\* len is 0, addr has a bit above bit 17, or addr + len, taken as a sum of
\* integers with no wrap, is 262144 or more.
OutOfRange(addr, len) ==
  \/ len = N32(0)
  \/ addr[1] >= (kAddrMask + 1) \div Half
  \/ addr[1] + len[1] + ((addr[2] + len[2]) \div Half) >= (kPages * kBytesPerPage) \div Half

\* C11: a Write or Read whose length is 0, whose address has a bit above
\* bit 17, or whose address plus length is 262144 or more (also when the
\* sum does not fit in 32 bits) returns false, issues no transfer and
\* leaves the memory alone.
OutOfRangeRejected ==
  (call.op \in { "write", "read" } /\ OutOfRange(call.addr, call.len))
    => /\ ~ call.ok
       /\ bus = << >>
       /\ eeprom = call.mem0


---------------------------------------------------------------------------
(* Properties of a transport error in the firmware (Spec).                 *)

\* The byte at address a after the write transfers xs reached the memory
\* mem, in their order.
ByteAfter(mem, xs, a) ==
  LET hits == { k \in 1..Len(xs) :
                  /\ xs[k].kind = "write"
                  /\ a >= DeviceAddr(xs[k].i2c_addr, xs[k].addr_bytes)
                  /\ a < DeviceAddr(xs[k].i2c_addr, xs[k].addr_bytes) + Len(xs[k].data) }
  IN  IF hits = {} THEN MemAt(mem, a)
      ELSE LET k == CHOOSE h \in hits : \A g \in hits : g <= h
           IN  xs[k].data[a - DeviceAddr(xs[k].i2c_addr, xs[k].addr_bytes) + 1]

\* The transfer x writes to the page p (a page write stays in its page).
WritesPage(x, p) ==
  x.kind = "write" /\ DeviceAddr(x.i2c_addr, x.addr_bytes) \div kBytesPerPage = p

\* The pages that m0 or m1 holds other than erased, and the pages of the
\* record and the pulse counts.
PagesInUse(m0, m1) ==
  (DOMAIN m0) \cup (DOMAIN m1) \cup
    (0..((kPulseCountAddr + WordBytes * kPulseCountWords) \div kBytesPerPage))

\* The k-th sub-transfer of a store of the block d: 256 bytes of it (the
\* last one what is left) at the start of page k - 1.
BlockChunk(d, k) ==
  [ addr |-> kDeviceInfoAddr + (k - 1) * kBytesPerPage,
    data |-> SubSeq(d, (k - 1) * kBytesPerPage + 1, Min(k * kBytesPerPage, Len(d))) ]

\* C12: a step in which a transfer fails ends in Panic(): the failed
\* transfer is the last one issued, what the transfers before it wrote is
\* in the EEPROM and every other byte is as before; when a store of the
\* record fails in its j-th chunk, chunks 1..j are the ones issued, the
\* bytes of chunks 1..j-1 are persisted and the bytes from chunk j on are
\* not; and a firmware in Panic() takes no further step.
TransportErrorIsTerminal ==
  [][ /\ pc' = "panic" =>
           \E xs \in { bus' } :
             /\ xs # << >>
             /\ \E done \in { SubSeq(xs, 1, Len(xs) - 1) } :
                \A p \in PagesInUse(eeprom, eeprom') :
                  IF \E k \in 1..Len(done) : WritesPage(done[k], p)
                  THEN \A i \in 0..(kBytesPerPage - 1) :
                         MemAt(eeprom', p * kBytesPerPage + i) =
                           ByteAfter(eeprom, done, p * kBytesPerPage + i)
                  ELSE PageOf(eeprom', p) = PageOf(eeprom, p)
             /\ (DispatchStep /\ line' # RESETCOUNT) =>
                  /\ Len(xs) <= 3
                  /\ \A k \in 1..Len(xs) :
                       /\ xs[k].kind = "write"
                       /\ DeviceAddr(xs[k].i2c_addr, xs[k].addr_bytes) = BlockChunk(data', k).addr
                       /\ xs[k].data = BlockChunk(data', k).data
                  /\ \A i \in 1..BlockSize :
                       MemAt(eeprom', kDeviceInfoAddr + i - 1) =
                         IF i <= (Len(xs) - 1) * kBytesPerPage THEN data'[i]
                         ELSE MemAt(eeprom, kDeviceInfoAddr + i - 1)
      /\ pc = "panic" => FALSE
    ]_vars

\* An assignment failed in its second chunk: the new field is persisted with
\* the first chunk, the new checksum is not, and the firmware is in Panic().
SecondChunkFailed ==
  /\ pc = "panic"
  /\ ev = "line"
  /\ Len(bus) = 2
  /\ peer_key <= 3
  /\ line = Keys[peer_key + 1] \o << cEQ >> \o Acme
  /\ Field(data, peer_key) = Acme \o Zeros(kFieldSize - Len(Acme))
  /\ \A i \in 1..kBytesPerPage : MemAt(eeprom, kDeviceInfoAddr + i - 1) = data[i]
  /\ MemAt(eeprom, kDeviceInfoAddr + BlockSize - 1) # data[BlockSize]


---------------------------------------------------------------------------
(* One DeviceInfoString alone: Set and Get called on a field of any        *)
(* content (SpecString).                                                   *)

\* Set calls per behaviour.
MaxSets == 2

\* Texts of printable bytes: none, one byte, the lowest and the highest
\* printable byte, and texts of 63, 64 and 70 bytes.
StringTexts ==
  { << >>, << 65 >>, << 32, 126 >>, Acme, SubSeq(LongValue, 1, kFieldSize - 1),
    SubSeq(LongValue, 1, kFieldSize), LongValue }

\* What the 64 bytes hold before the calls: zeros, a blank EEPROM's 0xFF, a
\* text cut by 0xFF, and 64 bytes with neither NUL nor 0xFF.
StringFields ==
  { Zeros(kFieldSize),
    [ i \in 1..kFieldSize |-> Erased ],
    [ i \in 1..kFieldSize |-> IF i <= 3 THEN 64 + i ELSE IF i = 4 THEN Erased ELSE 66 ],
    [ i \in 1..kFieldSize |-> 48 + (i % 10) ] }

InitString ==
  /\ pc = "string"
  /\ wrlock = FALSE
  /\ eeprom = ErasedMem
  /\ data \in StringFields
  /\ pulsecount = N32(0)
  /\ last_pulsecount = N32(0)
  /\ next_pulsecount_idx = 0
  /\ ev = "none"
  /\ line = << >>
  /\ out = << >>
  /\ bus = << >>
  /\ call = [ op |-> "none", sets |-> 0, arg |-> << >>, before |-> << >> ]
  /\ peer_key = 0
  /\ npulses = 0

\* field.Set(str).
SetCall ==
  /\ pc = "string"
  /\ call.sets < MaxSets
  /\ \E str \in StringTexts :
       /\ data' = Set(data, str)
       /\ call' = [ op |-> "set", sets |-> call.sets + 1, arg |-> str, before |-> data ]
  /\ out' = << >>
  /\ UNCHANGED << pc, wrlock, eeprom, pulsecount, last_pulsecount,
                  next_pulsecount_idx, ev, line, bus, peer_key, npulses >>

\* field.Get().
GetCall ==
  /\ pc = "string"
  /\ call.op # "get"
  /\ out' = Get(data)
  /\ call' = [ call EXCEPT !.op = "get" ]
  /\ UNCHANGED << pc, wrlock, eeprom, data, pulsecount, last_pulsecount,
                  next_pulsecount_idx, ev, line, bus, peer_key, npulses >>

NextString ==
  \/ SetCall
  \/ GetCall

SpecString == InitString /\ [][NextString]_vars

---------------------------------------------------------------------------
(* Properties of DeviceInfoString (SpecString).                            *)

\* C13: after Set(t) the field is the first min(len(t), 63) bytes of t and
\* zeros after them, whatever it held; Get() gives the bytes before the
\* first NUL or 0xFF byte of the field (all 64 if it has none), so Get()
\* after Set(t) gives the first min(len(t), 63) bytes of t, and none after
\* Set("").
SetGetRoundTrip ==
  /\ call.op = "set" =>
       /\ \A i \in 1..kFieldSize :
            data[i] = IF i <= Len(call.arg) /\ i <= 63 THEN call.arg[i] ELSE 0
       /\ data[kFieldSize] = 0
  /\ call.op = "get" =>
       /\ Len(out) <= kFieldSize
       /\ \A i \in 1..Len(out) : out[i] = data[i] /\ out[i] # 0 /\ out[i] # 255
       /\ Len(out) < kFieldSize => data[Len(out) + 1] \in { 0, 255 }
       /\ call.sets > 0 =>
            /\ out = Trunc63(call.arg)
            /\ call.arg = << >> => out = << >>

\* Get() has just given the first 63 bytes of a 70-byte text set on a field
\* that held 0xFF in all its bytes.
LongTextOnBlankField ==
  /\ call.op = "get"
  /\ call.sets = 1
  /\ call.arg = LongValue
  /\ \A i \in 1..kFieldSize : call.before[i] = Erased
  /\ Len(out) = 63
  /\ out = SubSeq(LongValue, 1, 63)


---------------------------------------------------------------------------
(* Values of any bytes: DeviceInfoString::Set called on a field of the     *)
(* record, and HandleSerialMessage called with an assignment, as a test    *)
(* would call them (SpecAssign).  The main loop itself passes printable    *)
(* bytes only (line 354).                                                  *)

\* Calls per behaviour.
MaxCalls == 2

\* Values: a printable one, and values with a control byte, a byte above
\* 126, DEL, and a control byte behind the 63 bytes a field takes.
RawValues ==
  { Acme, << 65, 7, 66 >>, << 65, 200 >>, << 127 >>,
    LongValue \o << 9 >> }

\* The fields the calls are made on.
RawKeys == { 0, 9 }

InitAssign ==
  /\ pc = "assign"
  /\ wrlock \in BOOLEAN
  /\ data \in { GoodBlock, Zeros(BlockSize) }
  /\ eeprom = Place(ErasedMem, kDeviceInfoAddr, data)
  /\ pulsecount = N32(0)
  /\ last_pulsecount = N32(0)
  /\ next_pulsecount_idx = 0
  /\ ev = "none"
  /\ line = << >>
  /\ out = << >>
  /\ bus = << >>
  /\ call = [ op |-> "none", n |-> 0, key |-> 0, arg |-> << >>, before |-> << >>,
              mem0 |-> ErasedMem ]
  /\ peer_key = 0
  /\ npulses = 0

\* data.<field>.Set(str).
FieldSet ==
  /\ pc = "assign"
  /\ call.n < MaxCalls
  /\ \E k \in RawKeys, str \in RawValues :
       /\ data' = WithField(data, k, Set(Field(data, k), str))
       /\ call' = [ op |-> "set", n |-> call.n + 1, key |-> k, arg |-> str,
                    before |-> data, mem0 |-> eeprom ]
  /\ line' = << >>
  /\ out' = << >>
  /\ bus' = << >>
  /\ UNCHANGED << pc, wrlock, eeprom, pulsecount, last_pulsecount,
                  next_pulsecount_idx, ev, peer_key, npulses >>

\* HandleSerialMessage("<key>=<value>").
HandleAssign ==
  /\ pc = "assign"
  /\ call.n < MaxCalls
  /\ \E k \in RawKeys, val \in RawValues :
     \E message \in { Keys[k + 1] \o << cEQ >> \o val } :
     \E r \in { HandleSerialMessage(message, data, eeprom, pulsecount, wrlock,
                                    0, << 0 >>) } :
       /\ data' = r.data
       /\ eeprom' = r.mem
       /\ out' = r.out
       /\ bus' = r.bus
       /\ line' = message
       /\ call' = [ op |-> "handle", n |-> call.n + 1, key |-> k, arg |-> val,
                    before |-> data, mem0 |-> eeprom ]
  /\ UNCHANGED << pc, wrlock, pulsecount, last_pulsecount, next_pulsecount_idx,
                  ev, peer_key, npulses >>

NextAssign ==
  \/ FieldSet
  \/ HandleAssign

SpecAssign == InitAssign /\ [][NextAssign]_vars

---------------------------------------------------------------------------
(* Properties of values with non-printable bytes (SpecAssign).             *)

\* Set with a text that holds a non-printable byte, called on a field or
\* reached through an assignment, changes nothing.
NonPrintableSetIsNoOp ==
  (call.op \in { "set", "handle" } /\ ~ Printable(call.arg))
    => data = call.before /\ eeprom = call.mem0

\* C14: an assignment whose value holds a non-printable byte, anywhere in
\* it, changes neither the record in memory (checksum included) nor the
\* EEPROM and prints nothing: HandleSerialMessage returns before it calls
\* Set.  Set itself takes any bytes: called with such a text it stores the
\* first 63 bytes and zeros after them, and leaves the other fields, the
\* checksum byte and the EEPROM alone.
NonPrintableAssignmentRejected ==
  /\ (call.op = "handle" /\ ~ Printable(call.arg)) =>
       /\ data = call.before
       /\ eeprom = call.mem0
       /\ bus = << >>
       /\ out = << >>
  /\ call.op = "set" =>
       /\ Field(data, call.key) =
            Trunc63(call.arg) \o Zeros(kFieldSize - Len(Trunc63(call.arg)))
       /\ \A g \in 0..(kFields - 1) :
            g # call.key => Field(data, g) = Field(call.before, g)
       /\ data[BlockSize] = call.before[BlockSize]
       /\ eeprom = call.mem0

\* An assignment of 70 printable bytes and a TAB has just been rejected
\* with writing permitted, the record in place.
LongValueWithTabRejected ==
  /\ call.op = "handle"
  /\ ~ wrlock
  /\ call.arg = LongValue \o << 9 >>
  /\ data = call.before
  /\ data = GoodBlock
  /\ Persisted(eeprom, data)


---------------------------------------------------------------------------
(* The pulse count in the running firmware: start-up on a chip that holds  *)
(* a count, then pulses, idle flushes, PULSECOUNT? and RESETCOUNT          *)
(* (SpecPulses).                                                           *)

\* Counted pulses per behaviour.
MaxCounted == 2

\* The lines the peer sends.
CountLines == { PULSECOUNT \o << cQM >>, RESETCOUNT }

InitPulses ==
  /\ pc = "boot"
  /\ wrlock = TRUE
  /\ eeprom \in { Image(GoodBlock, UsedSlots), Image(GoodBlock, HighSlots),
                  Image(GoodBlock, HalfBlankSlots) }
  /\ peer_key = 0
  /\ data = Zeros(BlockSize)
  /\ pulsecount = N32(0)
  /\ last_pulsecount = N32(0)
  /\ next_pulsecount_idx = 0
  /\ ev = "none"
  /\ line = << >>
  /\ out = << >>
  /\ bus = << >>
  /\ call = NoCall
  /\ npulses = 0

PulseCounted == PulseUpTo(MaxCounted)

DispatchCount == DispatchOf(CountLines)

NextPulses ==
  \/ Boot
  \/ PulseCounted
  \/ Idle
  \/ Flush
  \/ DispatchCount
  \/ Consume
  \/ ResetDone

SpecPulses == InitPulses /\ [][NextPulses]_vars

---------------------------------------------------------------------------
(* Properties of the pulse count in memory (SpecPulses).                   *)

\* C15: after start-up, and RESETCOUNT apart, a step that changes the
\* pulse count in memory is a step of the pulse handler alone and takes it
\* from n to n + 1, a larger value; PULSECOUNT? prints the count and leaves
\* it as it is, so that the values printed never decrease.
PulseCountNeverDecreases ==
  [][ /\ (pc \notin { "boot", "reset" } /\ pulsecount' # pulsecount) =>
           /\ pulsecount' = Add32(pulsecount, N32(1))
           /\ Less32(pulsecount, pulsecount')
           /\ UNCHANGED << pc, wrlock, eeprom, data, last_pulsecount,
                           next_pulsecount_idx, ev, line, out, bus >>
      /\ (DispatchStep /\ line' = PULSECOUNT \o << cQM >>) =>
           /\ out' = Decimal(pulsecount) \o << cLF >>
           /\ pulsecount' = pulsecount
    ]_vars


---------------------------------------------------------------------------
(* The running firmware under its scheduling (SpecPulsesLive): the poll of *)
(* the input times out again and again (main.cpp line 340, a 10 us         *)
(* timeout), and code that can run does run.                               *)

SpecPulsesLive ==
  /\ InitPulses
  /\ [][NextPulses]_vars
  /\ SF_vars(Idle)
  /\ WF_vars(Boot)
  /\ WF_vars(Flush)
  /\ WF_vars(ResetDone)
  /\ WF_vars(Consume)

\* Counter slot i of the array in the EEPROM.
SlotAt(mem, i) ==
  FromBytes([ b \in 1..WordBytes |-> MemAt(mem, GetPulseCountAddr(i) + b - 1) ])

\* The count in memory is the count flushed last and the slot before the
\* next write index holds it.
Flushed ==
  /\ last_pulsecount = pulsecount
  /\ SlotAt(eeprom, (next_pulsecount_idx + kPulseCountWords - 1) % kPulseCountWords)
       = pulsecount

\* C16: when the count in memory differs from the count flushed last, then
\* later, unless a transfer fails (the firmware is in Panic), the count
\* flushed last is the count in memory and the slot written last holds it.
FlushEventually ==
  (pulsecount # last_pulsecount) ~> (Flushed \/ pc = "panic")

\* The timeout branch has just stored a count of two pulses over the one
\* loaded at start-up.
CountFlushed ==
  /\ pc = "poll"
  /\ ev = "flush"
  /\ npulses = 2
  /\ Flushed
  /\ pulsecount = N32(20)
  /\ Len(bus) = 1


---------------------------------------------------------------------------
(* Properties of the slots of the pulse count store (SpecCounter).         *)

\* The slots in the order of the ring, the slot at the next write index
\* first and the slot before it last.
Ring(mem, idx) ==
  [ j \in 1..kPulseCountWords |-> SlotAt(mem, (idx + j - 1) % kPulseCountWords) ]

\* The largest value a slot holds that is not the blank value (0 if none).
Current(mem) ==
  LET held == { SlotAt(mem, i) : i \in 0..(kPulseCountWords - 1) } \ { Blank }
  IN  IF held = {} THEN N32(0)
      ELSE CHOOSE v \in held : \A w \in held : Leq32(w, v)

\* The slots that hold neither the current value nor a blank (0xFFFFFFFF,
\* or the 0 a reset or a load puts in its place).
StaleSlots(mem) ==
  { i \in 0..(kPulseCountWords - 1) :
      SlotAt(mem, i) \notin { Current(mem), Blank, N32(0) } }

\* C17 as stated: after ResetPulseCount or LoadPulseCount on an erased
\* array, whatever stores of growing values and loads follow, at most one
\* slot holds a value that is neither the current value nor blank.
AtMostOneStaleSlot ==
  call.fresh => Cardinality(StaleSlots(eeprom)) <= 1

\* C17: after ResetPulseCount or LoadPulseCount on an erased array, and
\* stores of growing values only, the slots read in the order of the ring
\* from the next write index never decrease, the last of them is the value
\* stored last, and each slot holds 0 or one of the values stored: every
\* slot but the one written last may hold an older value.
RingNeverDecreases ==
  (call.fresh /\ call.pure) =>
    \E ring \in { Ring(eeprom, next_pulsecount_idx) } :
      /\ \A j \in 1..(kPulseCountWords - 1) : Leq32(ring[j], ring[j + 1])
      /\ call.stores > 0 => ring[kPulseCountWords] = call.value
      /\ call.stores = 0 => \A j \in 1..kPulseCountWords : ring[j] = N32(0)
      /\ Cardinality({ j \in 1..kPulseCountWords : ring[j] # N32(0) }) <= call.stores

\* Seventeen stores after a reset: fifteen slots hold values older than the
\* one stored last.
FifteenOlderValues ==
  /\ call.op = "store"
  /\ call.pure
  /\ call.stores = 17
  /\ call.value = N32(17)
  /\ next_pulsecount_idx = 1
  /\ Cardinality(StaleSlots(eeprom)) = kPulseCountWords - 1


\* C18: a StorePulseCount issues one write transfer, of the four bytes of
\* the value, at kPulseCountAddr + 4 * next_pulsecount_idx; the slot at
\* that index then holds the value, every other byte of the EEPROM (the
\* other slots, the record) is as before, and the index becomes its
\* successor modulo K, staying in 0..K-1; over the stores made since the
\* last reset or load no two slots differ by more than one in the writes
\* they received.
StoreWritesOneSlot ==
  [][ (call'.op = "store" /\ call'.stores = call.stores + 1) =>
        /\ next_pulsecount_idx \in 0..(kPulseCountWords - 1)
        /\ Len(bus') = 1
        /\ bus'[1].kind = "write"
        /\ DeviceAddr(bus'[1].i2c_addr, bus'[1].addr_bytes)
             = kPulseCountAddr + WordBytes * next_pulsecount_idx
        /\ bus'[1].data = ToBytes(call'.value)
        /\ \A i \in 0..(kPulseCountWords - 1) :
             FromBytes([ b \in 1..WordBytes |->
                           MemAt(eeprom', kPulseCountAddr + WordBytes * i + b - 1) ])
               = IF i = next_pulsecount_idx THEN call'.value
                 ELSE FromBytes([ b \in 1..WordBytes |->
                           MemAt(eeprom, kPulseCountAddr + WordBytes * i + b - 1) ])
        /\ SameOutside(eeprom, eeprom',
                       kPulseCountAddr + WordBytes * next_pulsecount_idx, WordBytes)
        /\ next_pulsecount_idx' = (next_pulsecount_idx + 1) % kPulseCountWords
        /\ next_pulsecount_idx' \in 0..(kPulseCountWords - 1)
        /\ UNCHANGED << pulsecount, last_pulsecount >>
        /\ \A a, b \in 0..(kPulseCountWords - 1) :
             call'.writes[a] - call'.writes[b] <= 1
    ]_vars

\* The seventeenth store after a reset of a chip that holds a record: the
\* first slot has been written twice, each other slot once, and the record
\* is as it was.
SeventeenthStore ==
  /\ call.op = "store"
  /\ call.pure
  /\ call.stores = 17
  /\ call.slot = 0
  /\ next_pulsecount_idx = 1
  /\ call.writes[0] = 2
  /\ \A i \in 1..(kPulseCountWords - 1) : call.writes[i] = 1
  /\ Persisted(eeprom, GoodBlock)
  /\ SlotAt(eeprom, 0) = call.value


\* The K slots of the array in the EEPROM.
SlotsOf(mem) == [ i \in 1..kPulseCountWords |-> SlotAt(mem, i - 1) ]

\* C19: LoadPulseCount reads the K slots in one transfer; if a slot held
\* 0xFFFFFFFF it then writes the array once, each such slot as 0 and each
\* other slot as it was, and if none did it writes nothing; afterwards no
\* slot holds 0xFFFFFFFF, the bytes outside the array are as before, and a
\* load of an erased array gives the count 0.
LoadZeroesBlanks ==
  call.op = "load" =>
    \E raw \in { SlotsOf(call.mem0) } :
    \E now \in { SlotsOf(eeprom) } :
      /\ bus[1].kind = "read"
      /\ DeviceAddr(bus[1].i2c_addr, bus[1].addr_bytes) = kPulseCountAddr
      /\ bus[1].len = WordBytes * kPulseCountWords
      /\ \A i \in 1..kPulseCountWords :
           now[i] = IF raw[i] = Blank THEN N32(0) ELSE raw[i]
      /\ \A i \in 1..kPulseCountWords : now[i] # Blank
      /\ IF \E i \in 1..kPulseCountWords : raw[i] = Blank
         THEN /\ Len(bus) = 2
              /\ bus[2].kind = "write"
              /\ DeviceAddr(bus[2].i2c_addr, bus[2].addr_bytes) = kPulseCountAddr
              /\ bus[2].data = WordsToBytes(now)
         ELSE /\ Len(bus) = 1
              /\ eeprom = call.mem0
      /\ SameOutside(call.mem0, eeprom, kPulseCountAddr, WordBytes * kPulseCountWords)
      /\ (\A i \in 1..kPulseCountWords : raw[i] = Blank) => pulsecount = N32(0)

\* A load of an array of three counts and thirteen blank slots has written
\* the thirteen as 0 and kept the three.
BlankSlotsZeroed ==
  /\ call.op = "load"
  /\ call.mem0 = Image(GoodBlock, HalfBlankSlots)
  /\ eeprom = Image(GoodBlock, [ i \in 1..kPulseCountWords |->
                                   IF i <= 3 THEN N32(4 + i) ELSE N32(0) ])
  /\ Len(bus) = 2
  /\ pulsecount = N32(7)
  /\ next_pulsecount_idx = 3


---------------------------------------------------------------------------
(* LoadPulseCount at start-up on arrays of any content (SpecScan).         *)

\* 0x00010000 + n: values told apart by their upper half.
Big(n) == << 1, n >>

\* Arrays of K words: rings of growing values cut at each slot; one value in
\* all slots; one slot above or below the others, at each slot; the first n
\* slots written after a reset; values that differ in their upper halves
\* only, or in a way their lower halves contradict; blank slots.
ScanArrays ==
  { [ i \in 1..kPulseCountWords |->
        N32(100 + ((i - 1 + kPulseCountWords - c) % kPulseCountWords)) ] :
      c \in 0..(kPulseCountWords - 1) }
  \cup { [ i \in 1..kPulseCountWords |-> v ] :
           v \in { N32(0), N32(5), << Half - 1, Half - 2 >>, Blank } }
  \cup { [ i \in 1..kPulseCountWords |-> IF i = p THEN N32(9) ELSE N32(3) ] :
           p \in 1..kPulseCountWords }
  \cup { [ i \in 1..kPulseCountWords |-> IF i = p THEN N32(3) ELSE N32(9) ] :
           p \in 1..kPulseCountWords }
  \cup { [ i \in 1..kPulseCountWords |-> IF i <= n THEN N32(i) ELSE N32(0) ] :
           n \in 1..kPulseCountWords }
  \cup { [ i \in 1..kPulseCountWords |-> IF i <= n THEN Big(0) ELSE N32(Half - 1) ] :
           n \in 1..(kPulseCountWords - 1) }
  \cup { [ i \in 1..kPulseCountWords |-> IF i <= n THEN Big(i) ELSE Blank ] :
           n \in 1..(kPulseCountWords - 1) }
  \cup { UsedSlots, HighSlots, HalfBlankSlots }

InitScan ==
  /\ pc = "scan"
  /\ wrlock = FALSE
  /\ \E pcs \in ScanArrays : eeprom = Image(GoodBlock, pcs)
  /\ data = << >>
  /\ pulsecount = N32(0)
  /\ last_pulsecount = N32(0)
  /\ next_pulsecount_idx = 0
  /\ ev = "none"
  /\ line = << >>
  /\ out = << >>
  /\ bus = << >>
  /\ call = [ op |-> "none", mem0 |-> ErasedMem ]
  /\ peer_key = 0
  /\ npulses = 0

\* LoadPulseCount() as main calls it, the statics zero (main.cpp line 301).
ScanLoad ==
  /\ pc = "scan"
  /\ call.op = "none"
  /\ \E r \in { LoadPulseCount(eeprom, next_pulsecount_idx, pulsecount, 0, 0) } :
       /\ eeprom' = r.mem
       /\ bus' = r.bus
       /\ next_pulsecount_idx' = r.next_pulsecount_idx
       /\ pulsecount' = r.pulsecount
  /\ call' = [ op |-> "load", mem0 |-> eeprom ]
  /\ UNCHANGED << pc, wrlock, data, last_pulsecount, ev, line, out, peer_key,
                  npulses >>

NextScan == ScanLoad

SpecScan == InitScan /\ [][NextScan]_vars

\* Slot i of pcs holds no less than its successor in the ring.
Descent(pcs, i) ==
  Leq32(pcs[((i + 1) % kPulseCountWords) + 1], pcs[i + 1])

---------------------------------------------------------------------------
(* The running firmware with its flushes counted (SpecFlush).              *)

InitFlush ==
  /\ pc = "boot"
  /\ wrlock = TRUE
  /\ eeprom \in { Image(GoodBlock, UsedSlots), Image(GoodBlock, HighSlots) }
  /\ peer_key = 0
  /\ data = Zeros(BlockSize)
  /\ pulsecount = N32(0)
  /\ last_pulsecount = N32(0)
  /\ next_pulsecount_idx = 0
  /\ ev = "none"
  /\ line = << >>
  /\ out = << >>
  /\ bus = << >>
  /\ call = [ op |-> "none", flushes |-> 0 ]
  /\ npulses = 0

\* The store of the timeout branch, counted.
FlushCounted ==
  /\ FlushStep
  /\ call' = [ call EXCEPT !.flushes = @ + 1 ]

NextFlush ==
  \/ Boot
  \/ PulseCounted
  \/ Idle
  \/ FlushCounted
  \/ DispatchCount
  \/ Consume
  \/ ResetDone

SpecFlush == InitFlush /\ [][NextFlush]_vars

\* The transfers a step issues.
Issued == IF bus' = bus THEN << >> ELSE bus'

\* A step issues a write that reaches a counter slot.
CounterWrite ==
  \E i \in 0..(kPulseCountWords - 1) : WritesToSlot(Issued, i) > 0

\* What holds of the loop's steps but for those of lines: the store is
\* entered from a timeout that found the counts to differ, a step of the
\* store issues one write, of the count, to the slot at the next write
\* index, a timeout that finds them equal issues nothing, and the stores
\* made are no more than the pulses counted.
FlushSteps ==
  /\ (pc # "flush" /\ pc' = "flush") =>
       /\ pc = "poll"
       /\ pulsecount # last_pulsecount
       /\ UNCHANGED << eeprom, bus, call >>
  /\ pc = "flush" =>
       /\ pulsecount # last_pulsecount
       /\ (call' # call) =>
            /\ call'.flushes = call.flushes + 1
            /\ Len(bus') = 1
            /\ bus'[1].kind = "write"
            /\ DeviceAddr(bus'[1].i2c_addr, bus'[1].addr_bytes)
                 = GetPulseCountAddr(next_pulsecount_idx)
            /\ bus'[1].data = ToBytes(pulsecount)
            /\ last_pulsecount' = pulsecount
  /\ (pc = "poll" /\ ev # "idle" /\ ev' = "idle") =>
       /\ pulsecount = last_pulsecount
       /\ bus' = << >>
       /\ UNCHANGED << eeprom, call >>
  /\ call'.flushes <= npulses'

\* C21 as stated: after start-up a step that issues a write to a counter
\* slot is a step of the store in a timeout cycle that found the counts to
\* differ, and issues one write; a timeout cycle that finds them equal and
\* a cycle that took a byte of input issue none; the stores made are no
\* more than the pulses counted.
CounterWrittenOnlyByFlush ==
  [][ /\ FlushSteps
      /\ (pc # "boot" /\ CounterWrite) => (pc = "flush" /\ call' # call)
      /\ DispatchStep => (~ CounterWrite /\ call' = call)
    ]_vars

\* C21: as above, but for the cycle that took the return character of a
\* RESETCOUNT line: it writes the K slots as 0 and is no store of the loop.
CounterFlushedOnlyWhenIdle ==
  [][ /\ FlushSteps
      /\ (pc # "boot" /\ CounterWrite /\ ~ (DispatchStep /\ line' = RESETCOUNT))
           => (pc = "flush" /\ call' # call)
      /\ (DispatchStep /\ line' # RESETCOUNT) => (~ CounterWrite /\ call' = call)
      /\ (DispatchStep /\ line' = RESETCOUNT) =>
           /\ call' = call
           /\ \A i \in 0..(kPulseCountWords - 1) : WritesToSlot(Issued, i) = 1
           /\ pc' # "panic" => SlotsZero(eeprom')
    ]_vars

\* Two pulses, each stored by a timeout cycle of its own.
TwoFlushes ==
  /\ pc = "poll"
  /\ ev = "flush"
  /\ call.flushes = 2
  /\ npulses = 2
  /\ last_pulsecount = pulsecount


---------------------------------------------------------------------------
(* Properties of the identity record as a whole (Spec).                    *)

\* The 64 bytes fld are printable bytes, 63 at most, and NUL bytes after
\* them.
WellFormed(fld) ==
  /\ fld[kFieldSize] = 0
  /\ \A i \in 1..(kFieldSize - 1) :
       \/ fld[i] = 0
       \/ IsPrint(fld[i]) /\ (i = 1 \/ fld[i - 1] # 0)

\* Member f of the record in the EEPROM (a member lies inside one page).
StoredField(mem, f) ==
  SubSeq(PageOf(mem, (kDeviceInfoAddr + f * kFieldSize) \div kBytesPerPage),
         ((kDeviceInfoAddr + f * kFieldSize) % kBytesPerPage) + 1,
         ((kDeviceInfoAddr + f * kFieldSize) % kBytesPerPage) + kFieldSize)

\* Every member of the record d in memory is well formed.
RecordWellFormed(d) ==
  \A f \in 0..(kFields - 1) : \E fld \in { Field(d, f) } : WellFormed(fld)

\* Every member of the record in the EEPROM is well formed.
StoredWellFormed(mem) ==
  \A f \in 0..(kFields - 1) : \E fld \in { StoredField(mem, f) } : WellFormed(fld)

\* Every member of the record in the EEPROM is as an erased chip or this
\* firmware leaves it: all 0xFF, or well formed.
FirmwareWritten(mem) ==
  \A f \in 0..(kFields - 1) :
    \E fld \in { StoredField(mem, f) } :
      WellFormed(fld) \/ (\A i \in 1..kFieldSize : fld[i] = Erased)

\* C22: a start-up on an EEPROM whose fields are erased or as this firmware
\* writes them that reaches the loop leaves every field, in memory and in
\* the EEPROM, a string of at most 63 printable bytes with NUL bytes after
\* it up to 64 bytes; and every step of the running firmware that changes
\* the record in memory or the EEPROM keeps the fields so, whatever line it
\* handles.
FieldsStayWellFormed ==
  [][ /\ (pc = "boot" /\ pc' = "poll" /\ FirmwareWritten(eeprom)) =>
           /\ RecordWellFormed(data')
           /\ StoredWellFormed(eeprom')
      /\ ( /\ pc \in { "poll", "flush", "reset" }
           /\ data' # data \/ eeprom' # eeprom
           /\ RecordWellFormed(data)
           /\ StoredWellFormed(eeprom) ) =>
           /\ RecordWellFormed(data')
           /\ StoredWellFormed(eeprom')
    ]_vars

\* On a chip that was erased at power-up, a line has set mfg to the first
\* 63 of 70 bytes, in memory and in the EEPROM, the other fields being
\* empty strings.
LongValueOnErasedChip ==
  /\ pc = "poll"
  /\ ev = "line"
  /\ peer_key = 0
  /\ line = MFG \o << cEQ >> \o LongValue
  /\ Field(data, 0) = SubSeq(LongValue, 1, kFieldSize - 1) \o << 0 >>
  /\ \A f \in 1..(kFields - 1) : Field(data, f) = Zeros(kFieldSize)
  /\ \A f \in 0..(kFields - 1) : StoredField(eeprom, f) = Field(data, f)


---------------------------------------------------------------------------
(* main.cpp, lines 336-358: the loop taking the bytes of the serial input  *)
(* one by one into rdbuf (SpecLine).  call holds the locals rdbuf and idx, *)
(* the bytes still to come, and the printable bytes taken since the last   *)
(* return character.                                                       *)

\* sizeof(rdbuf).
kBufSize == 512

\* '\r'.
cCR == 13

\* A cursor that is not reduced modulo the size of the buffer.
NextCursorNoWrap(idx) == idx + 1

\* idx = (idx + 1) % sizeof(rdbuf) (line 355).
NextCursor(idx) == (idx + 1) % kBufSize

\* n printable bytes, all of them different from their neighbours.
Filler(n) == [ i \in 1..n |-> 48 + (i % 10) ]

\* What the peer may send: a line of 516 bytes that ends in a query; a line
\* of 512 bytes; a query with bytes that are not printable in it, a line
\* feed and an empty line after it; an assignment, an empty line and a
\* query; two empty lines after a line that is no command.
InputStreams ==
  { Filler(kBufSize) \o MFG \o << cQM, cCR >>,
    Filler(kBufSize) \o << cCR >> \o VER \o << cQM, cCR >>,
    << 77, 9, 70, 0, 71, 255, cQM, 127, cCR, cLF, cCR >> \o VER \o << cQM, 128, cCR >>,
    MFG \o << cEQ >> \o Acme \o << cCR, cCR >> \o MFG \o << cQM, cCR >>,
    << 65, 66, 67, cCR, cCR, cLF, cCR >> }

InitLine ==
  /\ pc = "poll"
  /\ wrlock = FALSE
  /\ eeprom = Image(GoodBlock, UsedSlots)
  /\ data = GoodBlock
  /\ pulsecount = N32(18)
  /\ last_pulsecount = N32(18)
  /\ next_pulsecount_idx = 2
  /\ ev = "boot"
  /\ line = << >>
  /\ out = << >>
  /\ bus = << >>
  /\ \E input \in InputStreams :
       call = [ op |-> "none", rdbuf |-> Zeros(kBufSize), idx |-> 0,
                input |-> input, got |-> << >> ]
  /\ peer_key = 0
  /\ npulses = 0

\* c == '\r' (lines 350-353): rdbuf[idx] = '\0', idx = 0, and
\* HandleSerialMessage(rdbuf), the string in rdbuf up to its first NUL.
ReceiveReturn ==
  /\ pc = "poll"
  /\ call.input # << >>
  /\ Head(call.input) = cCR
  /\ \E buf \in { [ call.rdbuf EXCEPT ![call.idx + 1] = 0 ] } :
     \E message \in { CStringAt(buf, 1) } :
     \E beyond \in BeyondFor(message) :
     \E r \in { HandleSerialMessage(message, data, eeprom, pulsecount, wrlock,
                                    0, beyond) } :
       /\ call' = [ op |-> "return", rdbuf |-> buf, idx |-> 0,
                    input |-> Tail(call.input), got |-> << >> ]
       /\ line' = message
       /\ data' = r.data
       /\ eeprom' = r.mem
       /\ out' = r.out
       /\ bus' = r.bus
       /\ pc' = IF r.ok THEN "poll" ELSE "panic"
       /\ pulsecount' = IF r.reset THEN N32(0) ELSE pulsecount
       /\ last_pulsecount' = IF r.reset THEN N32(0) ELSE last_pulsecount
       /\ next_pulsecount_idx' = IF r.reset THEN 0 ELSE next_pulsecount_idx
  /\ ev' = "line"
  /\ UNCHANGED << wrlock, peer_key, npulses >>

\* std::isprint(c) (lines 354-356): rdbuf[idx] = c, the cursor moves on.
ReceivePrintable ==
  /\ pc = "poll"
  /\ call.input # << >>
  /\ Head(call.input) # cCR
  /\ IsPrint(Head(call.input))
  /\ call' = [ op |-> "printable",
               rdbuf |-> [ call.rdbuf EXCEPT ![call.idx + 1] = Head(call.input) ],
               idx |-> NextCursor(call.idx),
               input |-> Tail(call.input),
               got |-> Append(call.got, Head(call.input)) ]
  /\ ev' = "byte"
  /\ UNCHANGED << pc, wrlock, eeprom, data, pulsecount, last_pulsecount,
                  next_pulsecount_idx, line, out, bus, peer_key, npulses >>

\* Any other byte: neither branch is taken.
ReceiveOther ==
  /\ pc = "poll"
  /\ call.input # << >>
  /\ Head(call.input) # cCR
  /\ ~ IsPrint(Head(call.input))
  /\ call' = [ call EXCEPT !.op = "other", !.input = Tail(call.input) ]
  /\ ev' = "byte"
  /\ UNCHANGED << pc, wrlock, eeprom, data, pulsecount, last_pulsecount,
                  next_pulsecount_idx, line, out, bus, peer_key, npulses >>

NextLine ==
  \/ ReceiveReturn
  \/ ReceivePrintable
  \/ ReceiveOther

SpecLine == InitLine /\ [][NextLine]_vars

---------------------------------------------------------------------------
(* Properties of the line assembly (SpecLine).                             *)

\* The device as the peer can see it: the record, the EEPROM, the counts.
Device ==
  << pc, wrlock, eeprom, data, pulsecount, last_pulsecount, next_pulsecount_idx >>

\* C23: a printable byte goes into rdbuf at the cursor and the cursor
\* moves on modulo the size of the buffer, staying inside it, and nothing
\* else changes; a byte that is neither printable nor a return changes
\* neither buffer nor cursor nor anything else; a return puts a NUL at the
\* cursor, sets the cursor to 0 and hands to the handler the bytes before
\* the cursor, which are the printable bytes of the line after its last
\* full round of the buffer; a return at cursor 0 hands over an empty line,
\* which prints nothing, transfers nothing and leaves the device as it is.
LineAssembly ==
  [][ \E c \in { Head(call.input) } :
        /\ call.idx \in 0..(kBufSize - 1)
        /\ call'.idx \in 0..(kBufSize - 1)
        /\ Len(call'.rdbuf) = kBufSize
        /\ (c # cCR /\ c >= 32 /\ c <= 126) =>
             /\ call'.rdbuf[call.idx + 1] = c
             /\ \A i \in 1..kBufSize :
                  i # call.idx + 1 => call'.rdbuf[i] = call.rdbuf[i]
             /\ call'.idx = IF call.idx = kBufSize - 1 THEN 0 ELSE call.idx + 1
             /\ UNCHANGED << Device, line, out, bus >>
        /\ (c # cCR /\ (c < 32 \/ c > 126)) =>
             /\ call'.rdbuf = call.rdbuf
             /\ call'.idx = call.idx
             /\ UNCHANGED << Device, line, out, bus >>
        /\ c = cCR =>
             /\ call'.rdbuf[call.idx + 1] = 0
             /\ \A i \in 1..kBufSize :
                  i # call.idx + 1 => call'.rdbuf[i] = call.rdbuf[i]
             /\ call'.idx = 0
             /\ line' = SubSeq(call.rdbuf, 1, call.idx)
             /\ line' = SubSeq(call.got, kBufSize * (Len(call.got) \div kBufSize) + 1,
                               Len(call.got))
             /\ call.idx = 0 =>
                  /\ line' = << >>
                  /\ out' = << >>
                  /\ bus' = << >>
                  /\ UNCHANGED Device
    ]_vars

\* The return after a line of 516 bytes: the last four, MFG?, were taken
\* as the line, and the manufacturer was printed.
LongLineWrapped ==
  /\ call.op = "return"
  /\ call.input = << >>
  /\ line = MFG \o << cQM >>
  /\ out = Bloomy \o << cLF >>
  /\ SubSeq(call.rdbuf, 1, 6) = MFG \o << cQM, 0, 54 >>


\* C24: while the firmware is in its loop (start-up done, no line being
\* handled, no Panic), the 641 bytes of the record in the EEPROM, from
\* kDeviceInfoAddr on, are the bytes of the record in memory, the checksum
\* included.
RecordWrittenThrough ==
  pc \in { "poll", "flush", "reset" } =>
    \A p \in 0..((BlockSize - 1) \div kBytesPerPage) :
      \E page \in { PageOf(eeprom, (kDeviceInfoAddr \div kBytesPerPage) + p) } :
        \A i \in 1..Min(kBytesPerPage, BlockSize - p * kBytesPerPage) :
          page[i] = data[p * kBytesPerPage + i]

\* On a chip whose record had a wrong checksum, a line has set the name:
\* the field and the right checksum are in memory and in the EEPROM.
NameSetOverBadSum ==
  /\ pc = "poll"
  /\ ev = "line"
  /\ peer_key = 1
  /\ line = NAME \o << cEQ >> \o Acme
  /\ Field(data, 1) = Acme \o Zeros(kFieldSize - Len(Acme))
  /\ data[BlockSize] = ComputeChecksum(data)
  /\ data[BlockSize] # BadSumBlock[BlockSize]
  /\ Persisted(eeprom, data)


---------------------------------------------------------------------------
(* Properties of the flushed count (SpecPulses).                           *)

\* C25: whenever the loop polls for input the slot before the next write
\* index holds the count flushed last, whatever pulses came between the
\* steps of start-up, the timeout branch (its comparison, its store) and
\* RESETCOUNT (its write, its assignments); and the value a store writes is
\* the value it records as flushed last.
FlushedSlotHoldsLast ==
  [][ /\ pc' = "poll" =>
           SlotAt(eeprom', (next_pulsecount_idx' + kPulseCountWords - 1)
                             % kPulseCountWords) = last_pulsecount'
      /\ (pc = "flush" /\ pc' \in { "poll", "panic" }) =>
           /\ Len(bus') = 1
           /\ bus'[1].data = ToBytes(last_pulsecount')
           /\ last_pulsecount' = pulsecount
    ]_vars

\* One store has written a count two pulses above the one loaded at
\* start-up: the second pulse came before the store read the count.
TwoPulsesOneStore ==
  /\ pc = "poll"
  /\ ev = "flush"
  /\ npulses = 2
  /\ last_pulsecount = N32(20)
  /\ pulsecount = N32(20)
  /\ next_pulsecount_idx = 3
  /\ SlotAt(eeprom, 2) = N32(20)
  /\ SlotAt(eeprom, 1) = N32(18)


---------------------------------------------------------------------------
(* Properties of stored counts under LoadPulseCount (SpecCounter).         *)

\* C26: after ResetPulseCount or LoadPulseCount on an erased array and
\* stores of growing values, the last of them v (any 32-bit value), a
\* LoadPulseCount finds v in the slot stored last, leaves it there, writes
\* nothing, and gives v as the count.
StoredValueSurvivesLoad ==
  (call.op = "load" /\ call.fresh /\ call.stores > 0) =>
    /\ SlotAt(call.mem0, call.slot) = call.value
    /\ SlotAt(eeprom, call.slot) = call.value
    /\ Len(bus) = 1
    /\ pulsecount = call.value


=============================================================================
